---- MODULE Spec2Model ----
(***************************************************************************)
(* Gap analyzer (yencarnacion/gap-analyzer): one request of handleAnalyze, *)
(* i.e. parameter parsing, the daily fetch, analyzeDaily (one action per   *)
(* loop iteration), the 1-minute fetch and analyzeFirst15.                 *)
(*                                                                         *)
(* float64 values are modelled as exact rationals [n |-> .., d |-> ..] in  *)
(* lowest terms with d > 0: the model follows the arithmetic of the code   *)
(* without the rounding error of binary floating point.                    *)
(***************************************************************************)
EXTENDS Integers, Sequences, FiniteSets, TLC

\* ------------------------------------------------------------------------
\* Exact rational arithmetic standing in for float64
\* ------------------------------------------------------------------------

RECURSIVE GCD(_, _)
GCD(a, b) == IF b = 0 THEN a ELSE GCD(b, a % b)

AbsInt(x) == IF x < 0 THEN -x ELSE x

\* n/d in lowest terms (d > 0)
Rat(n, d) == LET g == GCD(AbsInt(n), d) IN [n |-> n \div g, d |-> d \div g]

R(k) == [n |-> k, d |-> 1]

Zero == R(0)

RNeg(x) == [n |-> -x.n, d |-> x.d]

RAdd(x, y) ==
    LET g == GCD(x.d, y.d)
        l == (x.d \div g) * y.d
    IN  Rat(x.n * (l \div x.d) + y.n * (l \div y.d), l)

RSub(x, y) == RAdd(x, RNeg(y))

RMul(x, y) ==
    LET a == Rat(x.n, y.d)
        b == Rat(y.n, x.d)
    IN  [n |-> a.n * b.n, d |-> a.d * b.d]

\* x / y for y # 0
RDiv(x, y) ==
    IF y.n > 0 THEN RMul(x, [n |-> y.d, d |-> y.n])
               ELSE RMul(x, [n |-> -y.d, d |-> -y.n])

RLt(x, y) == RSub(x, y).n < 0
RLe(x, y) == RSub(x, y).n <= 0
RGt(x, y) == RLt(y, x)
RGe(x, y) == RLe(y, x)

\* math.Abs
RAbs(x) == [n |-> AbsInt(x.n), d |-> x.d]

\* math.Round(x * k): nearest integer, halves away from zero
RoundScaled(x, k) ==
    LET a  == AbsInt(x.n)
        q  == a \div x.d
        r  == a % x.d
        f  == (r * k) \div x.d
        h  == IF 2 * ((r * k) % x.d) >= x.d THEN 1 ELSE 0
        m  == q * k + f + h
    IN  IF x.n < 0 THEN -m ELSE m

\* ------------------------------------------------------------------------
\* Helpers
\* ------------------------------------------------------------------------

\* faulty variant of sign: a negative value is not told from zero
signNoNegative(x) == IF x.n > 0 THEN 1 ELSE 0

sign(x) == IF x.n > 0 THEN 1 ELSE IF x.n < 0 THEN -1 ELSE 0

round1(f) == Rat(RoundScaled(f, 10), 10)
round2(f) == Rat(RoundScaled(f, 100), 100)
\* faulty variant of round3: two decimals instead of three
round3AsTwo(f) == Rat(RoundScaled(f, 100), 100)

round3(f) == Rat(RoundScaled(f, 1000), 1000)

rate(n, d) == IF d = 0 THEN Zero ELSE round1(RMul(RDiv(R(n), R(d)), R(100)))

avg(sum, n) == IF n = 0 THEN Zero ELSE round3(RDiv(sum, R(n)))

\* Timestamps are minutes since the Unix epoch (the code's milliseconds,
\* of which only the minute matters).  New York local time is UTC-5.
DayMinutes == 24 * 60
NYOffset == 5 * 60

toNY(t) == t - NYOffset

Hour(local) == (local % DayMinutes) \div 60
Minute(local) == local % 60

\* calendar day number (days since 1970-01-01) of a local time
DateOf(local) == local \div DayMinutes

\* 1970-01-01 was a Thursday; Weekday().String()[:3]
WeekdayNames == <<"Sun", "Mon", "Tue", "Wed", "Thu", "Fri", "Sat">>
WeekdayOf(local) == WeekdayNames[((DateOf(local) + 4) % 7) + 1]

sessionDateNYFromDaily(tms) == DateOf(toNY(tms) + DayMinutes)
sessionWeekdayNYFromDaily(tms) == WeekdayOf(toNY(tms) + DayMinutes)

\* fmt.Sprintf("%.1f", x) for x >= 0: one decimal, ties to even
Format1(x) ==
    LET q  == (x.n * 10) \div x.d
        r2 == 2 * ((x.n * 10) % x.d)
        t  == IF r2 > x.d \/ (r2 = x.d /\ q % 2 = 1) THEN q + 1 ELSE q
    IN  ToString(t \div 10) \o "." \o ToString(t % 10)

defaultBins(mg) ==
    LET start == IF RLt(mg, Rat(1, 10)) THEN Rat(1, 10) ELSE mg
    IN  << [min |-> start,      max |-> Rat(1, 2), lab |-> Format1(start) \o "-0.5%"],
           [min |-> Rat(1, 2),  max |-> R(1),      lab |-> "0.5-1.0%"],
           [min |-> R(1),       max |-> Rat(3, 2), lab |-> "1.0-1.5%"],
           [min |-> Rat(3, 2),  max |-> R(99),     lab |-> ">1.5%"] >>

InBin(absGap, b) == RGe(absGap, b.min) /\ RLt(absGap, b.max)

labelFor(absGap, bs) ==
    LET hits == {k \in 1..Len(bs) : InBin(absGap, bs[k])}
    IN  IF hits = {} THEN "other"
        ELSE bs[CHOOSE k \in hits : \A m \in hits : k <= m].lab

\* ------------------------------------------------------------------------
\* Per-session quantities of analyzeDaily
\* ------------------------------------------------------------------------

\* prevClose <= 0 || open <= 0
BadPrice(prevClose, open) == prevClose <= 0 \/ open <= 0

\* (open - prevClose) / prevClose * 100.0
GapPctOf(prevClose, open) ==
    RMul(RDiv(RSub(R(open), R(prevClose)), R(prevClose)), R(100))

\* faulty variant of GapTooSmall: the threshold is read as a fraction, not a percentage
GapTooSmallAsFraction(gapPct, mg) == RLt(RAbs(gapPct), RDiv(mg, R(100)))

\* faulty variant of GapTooSmall: a gap equal to the threshold is skipped too
GapTooSmallOrEqual(gapPct, mg) == RLe(RAbs(gapPct), mg)

\* math.Abs(gapPct) < minGap
GapTooSmall(gapPct, mg) == RLt(RAbs(gapPct), mg)

\* (close - open) / open * 100.0
DailyReturnOf(open, close) ==
    RMul(RDiv(RSub(R(close), R(open)), R(open)), R(100))

\* faulty variant of SameDirOf: a flat session counts as a continuation
SameDirOrFlat(dr, dir) ==
    IF (dir = 1 /\ dr.n >= 0) \/ (dir = -1 /\ dr.n <= 0) THEN 1 ELSE 0

SameDirOf(dr, dir) == IF sign(dr) = dir /\ dir # 0 /\ dr.n # 0 THEN 1 ELSE 0

\* faulty variant of FilledOf: the close is compared, not the low and the high
FilledByClose(dir, day, prevClose) ==
    IF (dir = 1 /\ day.C <= prevClose) \/ (dir = -1 /\ day.C >= prevClose)
    THEN 1 ELSE 0

\* filled := 0; if (dir == 1 && day.L <= prevClose) || (dir == -1 && day.H >= prevClose) { filled = 1 }
FilledOf(dir, day, prevClose) ==
    IF (dir = 1 /\ day.L <= prevClose) \/ (dir = -1 /\ day.H >= prevClose)
    THEN 1 ELSE 0

\* faulty variant of FollowRetOf: the rounded daily return is used
FollowRetOfRounded(dir, dr) == RMul(R(dir), round3(dr))

\* followRet := float64(dir) * dr
FollowRetOf(dir, dr) == RMul(R(dir), dr)

\* faulty variant of FadeRetOf: the direction of the gap is left out
FadeRetOfUnsigned(dir, dr) == RNeg(dr)

\* fadeRet := -float64(dir) * dr
FadeRetOf(dir, dr) == RMul(RNeg(R(dir)), dr)

\* type agg struct { count, cont, filled int; sumFade, sumFollow float64 }
ZeroAgg == [count |-> 0, cont |-> 0, filled |-> 0, sumFade |-> Zero, sumFollow |-> Zero]

AddAgg(a, followRet, fadeRet, same, filled) ==
    [count     |-> a.count + 1,
     cont      |-> a.cont + same,
     filled    |-> a.filled + filled,
     sumFade   |-> RAdd(a.sumFade, fadeRet),
     sumFollow |-> RAdd(a.sumFollow, followRet)]

\* faulty variant of Weekdays: Friday is left out
WeekdaysNoFriday == {"Mon", "Tue", "Wed", "Thu"}

\* the keys of dowAgg
Weekdays == {"Mon", "Tue", "Wed", "Thu", "Fri"}

\* faulty variant of Recommendation: the thresholds are inclusive
RecommendationInclusive(cr) ==
    IF RGe(cr, R(60)) THEN "FOLLOW"
    ELSE IF RLe(cr, R(40)) THEN "FADE"
    ELSE "NEUTRAL"

\* rec := "NEUTRAL"; if cr > 60 {FOLLOW} else if cr < 40 {FADE}
Recommendation(cr) ==
    IF RGt(cr, R(60)) THEN "FOLLOW"
    ELSE IF RLt(cr, R(40)) THEN "FADE"
    ELSE "NEUTRAL"

\* float64(n) / float64(d) * 100.0
Pct(n, d) == RMul(RDiv(R(n), R(d)), R(100))

ZeroBinStat(lab) ==
    [Label |-> lab, Count |-> 0, ContinuationRate |-> Zero, GapFillRate |-> Zero,
     FadeAvg |-> Zero, FollowAvg |-> Zero, Recommendation |-> ""]

\* faulty variant of BinStatOf: Count is taken from the continuation counter
BinStatCountFromCont(lab, ba) ==
    IF ba.count = 0 THEN ZeroBinStat(lab)
    ELSE [Label            |-> lab,
          Count            |-> ba.cont,
          ContinuationRate |-> round1(Pct(ba.cont, ba.count)),
          GapFillRate      |-> round1(Pct(ba.filled, ba.count)),
          FadeAvg          |-> round3(RDiv(ba.sumFade, R(ba.count))),
          FollowAvg        |-> round3(RDiv(ba.sumFollow, R(ba.count))),
          Recommendation   |-> Recommendation(Pct(ba.cont, ba.count))]

\* one entry of outBins; ba is binAgg[b.lab]
BinStatOf(lab, ba) ==
    IF ba.count = 0 THEN ZeroBinStat(lab)
    ELSE [Label            |-> lab,
          Count            |-> ba.count,
          ContinuationRate |-> round1(Pct(ba.cont, ba.count)),
          GapFillRate      |-> round1(Pct(ba.filled, ba.count)),
          FadeAvg          |-> round3(RDiv(ba.sumFade, R(ba.count))),
          FollowAvg        |-> round3(RDiv(ba.sumFollow, R(ba.count))),
          Recommendation   |-> Recommendation(Pct(ba.cont, ba.count))]

\* SideStat and DowStat have the same fields
StatOf(a) ==
    [Count            |-> a.count,
     ContinuationRate |-> rate(a.cont, a.count),
     FadeAvg          |-> avg(a.sumFade, a.count),
     FollowAvg        |-> avg(a.sumFollow, a.count)]

ZeroStat == [Count |-> 0, ContinuationRate |-> Zero, FadeAvg |-> Zero, FollowAvg |-> Zero]

\* faulty variant of BestOf: a tie goes to FOLLOW
BestOfTieFollows(followAvg, fadeAvg) ==
    IF RGe(followAvg, fadeAvg) THEN [best |-> "FOLLOW", exp |-> followAvg]
    ELSE [best |-> "FADE", exp |-> fadeAvg]

\* best, exp of the summary
BestOf(followAvg, fadeAvg) ==
    IF RGt(followAvg, fadeAvg) THEN [best |-> "FOLLOW", exp |-> followAvg]
    ELSE IF RGt(fadeAvg, followAvg) THEN [best |-> "FADE", exp |-> fadeAvg]
    ELSE [best |-> "NEUTRAL", exp |-> Zero]

ZeroSummary ==
    [Sessions |-> 0, ContinuationRate |-> Zero, GapUps |-> 0, GapDowns |-> 0,
     MeanGap |-> Zero, MaxGapUp |-> Zero, MaxGapDown |-> Zero, FadeAvg |-> Zero,
     FollowAvg |-> Zero, BestStrategy |-> "", ExpectedReturn |-> Zero]

ZeroSummary15 ==
    [Sessions |-> 0, ContinuationRate |-> Zero, FadeAvg |-> Zero, FollowAvg |-> Zero,
     BestStrategy |-> "", ExpectedReturn |-> Zero, GapFillBy0945Rate |-> Zero]

\* a nil map[string]DowStat
NoStats == [k \in {} |-> ZeroStat]

\* the zero AnalyzeResponse
ZeroResponse ==
    [Success |-> FALSE, Error |-> "", Ticker |-> "", Years |-> 0, MinGap |-> Zero,
     Data |-> << >>, Summary |-> ZeroSummary, Bins |-> << >>, ByDOW |-> NoStats,
     UpSide |-> ZeroStat, DownSide |-> ZeroStat,
     CumDates |-> << >>, CumFade |-> << >>, CumFollow |-> << >>,
     Summary15 |-> ZeroSummary15, Bins15 |-> << >>, ByDOW15 |-> NoStats,
     UpSide15 |-> ZeroStat, DownSide15 |-> ZeroStat]

\* ------------------------------------------------------------------------
\* State
\* ------------------------------------------------------------------------

VARIABLES
    pc,            \* where handleAnalyze is
    query,         \* the request's query parameters
    ticker, years, minGap,   \* the parsed parameters
    status,        \* HTTP status written (0: none yet)
    daily,         \* the bars fetchPolygonDaily returned
    resp,          \* the AnalyzeResponse
    dates,         \* the session dates handed to fetchPolygon1MinForDates
    requests,      \* the dates requested from the 1-minute endpoint, in order
    minutesByDate, \* what fetchPolygon1MinForDates returned
    firstResp,     \* the response of the first run, once the analysis is run again
    rerun,         \* the analysis is being run a second time on the same bars
    polygonAPIKey, listenPort,   \* the package-level configuration
    parked,        \* the locals of a second request whose goroutine is not running
    \* locals of analyzeDaily
    i, bins, binAgg, upAgg, downAgg, dowAgg, points,
    fadeSum, followSum, contCount, upCount, downCount,
    meanAbsGap, maxGapUp, maxGapDown,
    cumFade, cumFollow, cumDates, cumFadeArr, cumFollowArr

paramVars == <<query, ticker, years, minGap>>

fetchVars == <<dates, requests, minutesByDate>>

\* the process-wide variables and the other goroutine
serverVars == <<polygonAPIKey, listenPort, parked>>

runVars == <<firstResp, rerun, serverVars>>

handlerVars == <<paramVars, status, daily, fetchVars, runVars>>

\* the accumulators of the daily loop
accVars == <<binAgg, upAgg, downAgg, dowAgg, points,
             fadeSum, followSum, contCount, upCount, downCount,
             meanAbsGap, maxGapUp, maxGapDown,
             cumFade, cumFollow, cumDates, cumFadeArr, cumFollowArr>>

dailyVars == <<i, bins, accVars>>

vars == <<pc, resp, handlerVars, dailyVars>>

\* ------------------------------------------------------------------------
\* Inputs
\* ------------------------------------------------------------------------

MaxBars == 3

Absent == [present |-> FALSE, v |-> Zero]
Given(x) == [present |-> TRUE, v |-> x]
AbsentInt == [present |-> FALSE, v |-> 0]
GivenInt(k) == [present |-> TRUE, v |-> k]

\* requests: no ticker; years left out and minGap out of range; explicit values
Queries ==
    { [ticker |-> "",    years |-> AbsentInt,   minGap |-> Absent],
      [ticker |-> "SPY", years |-> AbsentInt,   minGap |-> Given(R(20))],
      [ticker |-> "SPY", years |-> GivenInt(5), minGap |-> Given(Rat(1, 2))] }

MaxOf(a, b) == IF a >= b THEN a ELSE b
MinOf(a, b) == IF a <= b THEN a ELSE b

\* the k-th daily bar of a response: stamped 00:00 UTC of day k-1; oc is
\* <<open, close>>, or <<open, close, high, low>> as the provider sent them
BarAt(oc, k) ==
    [T |-> DayMinutes * (k - 1), O |-> oc[1],
     H |-> IF Len(oc) = 4 THEN oc[3] ELSE MaxOf(oc[1], oc[2]),
     L |-> IF Len(oc) = 4 THEN oc[4] ELSE MinOf(oc[1], oc[2]), C |-> oc[2]]

\* <<open, close>> of the bars a response is built from.  Against an open of
\* 200 the closes 199, 200, 201 and 100 of the day before give gaps of
\* +0.5025%, 0, -0.4975% and +100%; against 202 they give +1.5075%, +1%,
\* +0.4975% and +102%.
PoolOC ==
    { <<200, 199>>, <<200, 200>>, <<200, 201>>, <<200, 100>>,
      <<202, 199>>, <<202, 201>>, <<202, 0>>, <<0, 200>> }

\* a response of n bars built from the <<open, close>> pairs f[1..n]
DailyOf(f, n) == [k \in 1..n |-> BarAt(f[k], k)]

\* ------------------------------------------------------------------------
\* handleAnalyze: parameters and the daily fetch
\* ------------------------------------------------------------------------

ParseYears(p) == IF p.present /\ p.v >= 1 /\ p.v <= 5 THEN p.v ELSE 3

\* faulty variant of ParseMinGap: no lower bound on the value
ParseMinGapNoLowerBound(p) ==
    IF p.present /\ RLt(p.v, R(20)) THEN p.v ELSE Rat(3, 10)

\* minGap := 0.3; taken from the query if it parses and 0 < v < 20
ParseMinGap(p) ==
    IF p.present /\ RGt(p.v, Zero) /\ RLt(p.v, R(20)) THEN p.v ELSE Rat(3, 10)

\* no second request
NoRequest == [pc |-> "none"]

\* the locals of a request, as handleAnalyze finds them
InitLocals ==
    /\ ticker = "" /\ years = 0 /\ minGap = Zero
    /\ status = 0
    /\ daily = << >>
    /\ resp = ZeroResponse
    /\ dates = << >> /\ requests = << >>
    /\ minutesByDate = << >>
    /\ firstResp = ZeroResponse /\ rerun = FALSE
    /\ i = 0 /\ bins = << >>
    /\ dowAgg = << >>
    /\ upAgg = ZeroAgg /\ downAgg = ZeroAgg
    /\ points = << >>
    /\ fadeSum = Zero /\ followSum = Zero
    /\ contCount = 0 /\ upCount = 0 /\ downCount = 0
    /\ meanAbsGap = Zero /\ maxGapUp = Zero /\ maxGapDown = Zero
    /\ cumFade = Zero /\ cumFollow = Zero
    /\ cumDates = << >> /\ cumFadeArr = << >> /\ cumFollowArr = << >>

\* everything but pc, query and binAgg, as handleAnalyze finds it: main has
\* set the key and the port, and there is one request
InitRest ==
    /\ InitLocals
    /\ polygonAPIKey = "envkey" /\ listenPort = 8083
    /\ parked = NoRequest

Init ==
    /\ pc = "request"
    /\ query \in Queries
    /\ binAgg = << >>
    /\ InitRest

ParseRequest ==
    /\ pc = "request"
    /\ IF query.ticker = ""
       THEN /\ status' = 400
            /\ pc' = "rejected"
            /\ UNCHANGED <<ticker, years, minGap>>
       ELSE /\ ticker' = query.ticker
            /\ years' = ParseYears(query.years)
            /\ minGap' = ParseMinGap(query.minGap)
            /\ pc' = "fetchDaily"
            /\ UNCHANGED status
    /\ UNCHANGED <<query, daily, resp, fetchVars, runVars, dailyVars>>

FetchDailyOK(pool) ==
    /\ pc = "fetchDaily"
    /\ \E n \in 0..MaxBars : \E f \in [1..n -> pool] : daily' = DailyOf(f, n)
    /\ pc' = "analyzeDaily"
    /\ UNCHANGED <<paramVars, status, resp, fetchVars, runVars, dailyVars>>

\* faulty variant of FetchDailyFail: the error is written but the handler goes on
FetchDailyFailGoesOn ==
    /\ pc = "fetchDaily"
    /\ status' = 502
    /\ pc' = "analyzeDaily"
    /\ UNCHANGED <<paramVars, daily, resp, fetchVars, runVars, dailyVars>>

\* err != nil: http.Error(w, err.Error(), 502); return
FetchDailyFail ==
    /\ pc = "fetchDaily"
    /\ status' = 502
    /\ pc' = "failed"
    /\ UNCHANGED <<paramVars, daily, resp, fetchVars, runVars, dailyVars>>

\* ------------------------------------------------------------------------
\* analyzeDaily
\* ------------------------------------------------------------------------

\* where analyzeDaily returns to: Step 2 of handleAnalyze, or, when the
\* analysis is run again on the bars already fetched, Step 3
AfterDaily == IF rerun THEN "first15" ELSE "fetch1m"

\* faulty variant of NotEnoughData: one bar is taken as enough
NotEnoughDataWhenEmpty(bars) == Len(bars) < 1

\* len(daily) < 2
NotEnoughData(bars) == Len(bars) < 2

\* the response and the fresh accumulators; fewer than 2 bars return at once
DailyBegin ==
    /\ pc = "analyzeDaily"
    /\ LET r == [ZeroResponse EXCEPT !.Success = TRUE, !.Ticker = ticker,
                                     !.Years = years, !.MinGap = minGap]
           bs == defaultBins(minGap)
       IN  IF NotEnoughData(daily)
           THEN /\ resp' = [r EXCEPT !.Success = FALSE, !.Error = "not enough data"]
                /\ bins' = << >>
                /\ binAgg' = << >> /\ dowAgg' = << >>
                /\ pc' = AfterDaily
           ELSE /\ resp' = r
                /\ bins' = bs
                /\ binAgg' = [l \in {bs[k].lab : k \in 1..Len(bs)} |-> ZeroAgg]
                /\ dowAgg' = [d \in Weekdays |-> ZeroAgg]
                /\ pc' = "loop"
    /\ i' = 1
    /\ upAgg' = ZeroAgg /\ downAgg' = ZeroAgg
    /\ points' = << >>
    /\ fadeSum' = Zero /\ followSum' = Zero
    /\ contCount' = 0 /\ upCount' = 0 /\ downCount' = 0
    /\ meanAbsGap' = Zero /\ maxGapUp' = Zero /\ maxGapDown' = Zero
    /\ cumFade' = Zero /\ cumFollow' = Zero
    /\ cumDates' = << >> /\ cumFadeArr' = << >> /\ cumFollowArr' = << >>
    /\ UNCHANGED handlerVars

\* faulty variant of PrevOf: after a session with a bad open, the bar before it is kept
PrevOfLastGood(k) == IF k > 1 /\ daily[k].O <= 0 THEN daily[k - 1] ELSE daily[k]

\* prev := daily[i-1]  (the loop index here is one less than the code's, bars counted from 1)
PrevOf(k) == daily[k]

\* one iteration of  for i := 1; i < len(daily); i++
\* (the code's daily[i-1], daily[i] are daily[i], daily[i+1] here)
DailyStep ==
    /\ pc = "loop"
    /\ i < Len(daily)
    /\ LET prev      == PrevOf(i)
           day       == daily[i + 1]
           prevClose == prev.C
           open      == day.O
           close     == day.C
           gapPct    == GapPctOf(prevClose, open)
           dr        == DailyReturnOf(open, close)
           dir       == sign(gapPct)
           same      == SameDirOf(dr, dir)
           filled    == FilledOf(dir, day, prevClose)
           absGap    == RAbs(gapPct)
           bin       == labelFor(absGap, bins)
           dow       == sessionWeekdayNYFromDaily(day.T)
           followRet == FollowRetOf(dir, dr)
           fadeRet   == FadeRetOf(dir, dr)
           sessDate  == sessionDateNYFromDaily(day.T)
       IN  IF BadPrice(prevClose, open) \/ GapTooSmall(gapPct, minGap)
           THEN UNCHANGED accVars
           ELSE /\ upCount' = IF dir = 1 THEN upCount + 1 ELSE upCount
                /\ downCount' = IF dir = -1 THEN downCount + 1 ELSE downCount
                /\ contCount' = IF same = 1 THEN contCount + 1 ELSE contCount
                /\ meanAbsGap' = RAdd(meanAbsGap, absGap)
                /\ maxGapUp' = IF RGt(gapPct, maxGapUp) THEN gapPct ELSE maxGapUp
                /\ maxGapDown' = IF RLt(gapPct, maxGapDown) THEN gapPct ELSE maxGapDown
                /\ followSum' = RAdd(followSum, followRet)
                /\ fadeSum' = RAdd(fadeSum, fadeRet)
                /\ cumDates' = Append(cumDates, sessDate)
                /\ cumFollow' = RAdd(cumFollow, followRet)
                /\ cumFade' = RAdd(cumFade, fadeRet)
                /\ cumFollowArr' = Append(cumFollowArr, round3(RAdd(cumFollow, followRet)))
                /\ cumFadeArr' = Append(cumFadeArr, round3(RAdd(cumFade, fadeRet)))
                /\ binAgg' = IF bin \in DOMAIN binAgg
                             THEN [binAgg EXCEPT ![bin] = AddAgg(@, followRet, fadeRet, same, filled)]
                             ELSE binAgg
                /\ upAgg' = IF dir = 1 THEN AddAgg(upAgg, followRet, fadeRet, same, 0)
                            ELSE upAgg
                /\ downAgg' = IF dir = 1 THEN downAgg
                              ELSE AddAgg(downAgg, followRet, fadeRet, same, 0)
                /\ dowAgg' = IF dow \in DOMAIN dowAgg
                             THEN [dowAgg EXCEPT ![dow] = AddAgg(@, followRet, fadeRet, same, 0)]
                             ELSE dowAgg
                /\ points' = Append(points,
                       [Date |-> sessDate, GapPct |-> round3(gapPct),
                        DailyReturnPct |-> round3(dr), Direction |-> dir,
                        SameDir |-> same, Filled |-> filled, Bin |-> bin,
                        Open |-> open, Close |-> close, PrevClose |-> prevClose,
                        DayOfWeek |-> dow, Ret15mPct |-> Zero, FilledBy0945 |-> 0])
    /\ i' = i + 1
    /\ UNCHANGED <<pc, resp, bins, handlerVars>>

\* Summary of the daily portion
SummaryOf(total) ==
    LET contRate  == IF total > 0 THEN Pct(contCount, total) ELSE Zero
        fadeAvg   == IF total > 0 THEN RDiv(fadeSum, R(total)) ELSE Zero
        followAvg == IF total > 0 THEN RDiv(followSum, R(total)) ELSE Zero
        b         == BestOf(followAvg, fadeAvg)
        meanAbsGapPct == IF total > 0 THEN RDiv(meanAbsGap, R(total)) ELSE Zero
    IN  [Sessions         |-> total,
         ContinuationRate |-> round1(contRate),
         GapUps           |-> upCount,
         GapDowns         |-> downCount,
         MeanGap          |-> round2(meanAbsGapPct),
         MaxGapUp         |-> round2(maxGapUp),
         MaxGapDown       |-> round2(maxGapDown),
         FadeAvg          |-> round3(fadeAvg),
         FollowAvg        |-> round3(followAvg),
         BestStrategy     |-> b.best,
         ExpectedReturn   |-> round3(b.exp)]

\* outBins: one BinStat per bin, in the order of bins
OutBins == [k \in 1..Len(bins) |-> BinStatOf(bins[k].lab, binAgg[bins[k].lab])]

\* faulty variant of BinsLess: the comparator is turned around
BinsLessReversed(a, b) == a > b

\* func(i, j int) bool { return i < j }: the comparator is given indices and
\* compares the indices themselves
BinsLess(a, b) == a < b

\* sort.Slice on a slice of fewer than 12 elements is an insertion sort:
\* for j := k; j > 0 && less(j, j-1); j-- { swap(j, j-1) }
RECURSIVE SinkSlice(_, _)
SinkSlice(seq, j) ==
    IF j > 1 /\ BinsLess(j, j - 1)
    THEN SinkSlice([seq EXCEPT ![j] = seq[j - 1], ![j - 1] = seq[j]], j - 1)
    ELSE seq

RECURSIVE SortSlice(_, _)
SortSlice(seq, k) ==
    IF k > Len(seq) THEN seq ELSE SortSlice(SinkSlice(seq, k), k + 1)

\* the loop is over: fill the response and return
DailyFill ==
    /\ pc = "loop"
    /\ i >= Len(daily)
    /\ resp' = [resp EXCEPT
                  !.Data      = points,
                  !.CumDates  = cumDates,
                  !.CumFade   = cumFadeArr,
                  !.CumFollow = cumFollowArr,
                  !.Summary   = SummaryOf(Len(points)),
                  !.Bins      = SortSlice(OutBins, 2),
                  !.UpSide    = StatOf(upAgg),
                  !.DownSide  = StatOf(downAgg),
                  !.ByDOW     = [k \in DOMAIN dowAgg |-> StatOf(dowAgg[k])]]
    /\ pc' = AfterDaily
    /\ UNCHANGED <<handlerVars, dailyVars>>

\* ------------------------------------------------------------------------
\* handleAnalyze: the session dates and the 1-minute fetch
\* ------------------------------------------------------------------------

\* faulty variant of DistinctDates: the dates of all sessions fetched, not of the points
DatesOfAllSessions(pts, k, acc) ==
    [j \in 1..(Len(daily) - 1) |-> sessionDateNYFromDaily(daily[j + 1].T)]

\* dates of the points, first occurrences only (the seen map)
RECURSIVE DistinctDates(_, _, _)
DistinctDates(pts, k, acc) ==
    IF k > Len(pts) THEN acc
    ELSE DistinctDates(pts, k + 1,
             IF \E m \in 1..Len(acc) : acc[m] = pts[k].Date THEN acc
             ELSE Append(acc, pts[k].Date))

\* sort.Strings on YYYY-MM-DD strings: ascending dates
RECURSIVE SortAsc(_)
SortAsc(S) ==
    IF S = {} THEN << >>
    ELSE LET m == CHOOSE x \in S : \A y \in S : x <= y
         IN  <<m>> \o SortAsc(S \ {m})

SortStrings(seq) == SortAsc({seq[k] : k \in 1..Len(seq)})

\* a 1-minute bar of session date d that starts hm minutes after local midnight
MinuteBarsOn(d, tmpl) ==
    [k \in 1..Len(tmpl) |->
        [T |-> d * DayMinutes + tmpl[k].hm + NYOffset,
         O |-> tmpl[k].O, H |-> tmpl[k].H, L |-> tmpl[k].L, C |-> tmpl[k].C]]

\* what the provider answers for one date: not 200 (or undecodable), or bars
NoAnswer == [ok |-> FALSE, bars |-> << >>]

OpeningMinutes ==
    << [hm |-> 9 * 60 + 30, O |-> 200, H |-> 201, L |-> 199, C |-> 201],
       [hm |-> 9 * 60 + 44, O |-> 201, H |-> 203, L |-> 200, C |-> 203] >>

MinuteChoices == { NoAnswer, [ok |-> TRUE, bars |-> OpeningMinutes] }

\* a single bar stamped 09:45: only the fallback filter takes it
FallbackMinutes == << [hm |-> 9 * 60 + 45, O |-> 201, H |-> 202, L |-> 200, C |-> 202] >>

\* a single bar stamped 10:00: neither filter takes it
LateMinutes == << [hm |-> 10 * 60, O |-> 201, H |-> 202, L |-> 200, C |-> 202] >>

\* a single pre-market bar stamped 09:00: only the fallback filter takes it
PreMarketMinutes == << [hm |-> 9 * 60, O |-> 199, H |-> 202, L |-> 198, C |-> 202] >>

\* a single bar stamped 09:44: in the window, but no 09:30 bar
NoOpenBarMinutes == << [hm |-> 9 * 60 + 44, O |-> 201, H |-> 203, L |-> 200, C |-> 203] >>

\* the opening minutes with the open of the 09:30 bar missing (decoded as 0)
ZeroOpenMinutes ==
    << [hm |-> 9 * 60 + 30, O |-> 0,   H |-> 201, L |-> 199, C |-> 201],
       [hm |-> 9 * 60 + 44, O |-> 201, H |-> 203, L |-> 200, C |-> 203] >>

\* the opening minutes with a negative open in the 09:30 bar
NegativeOpenMinutes ==
    << [hm |-> 9 * 60 + 30, O |-> -1,  H |-> 201, L |-> 199, C |-> 201],
       [hm |-> 9 * 60 + 44, O |-> 201, H |-> 203, L |-> 200, C |-> 203] >>

\* answers that differ in what the opening window holds
MinuteChoicesOpening ==
    { NoAnswer, [ok |-> TRUE, bars |-> OpeningMinutes],
      [ok |-> TRUE, bars |-> FallbackMinutes], [ok |-> TRUE, bars |-> PreMarketMinutes],
      [ok |-> TRUE, bars |-> NoOpenBarMinutes], [ok |-> TRUE, bars |-> ZeroOpenMinutes],
      [ok |-> TRUE, bars |-> NegativeOpenMinutes] }

\* also: 200 with an empty result list
MinuteChoicesWide ==
    { NoAnswer, [ok |-> TRUE, bars |-> << >>], [ok |-> TRUE, bars |-> OpeningMinutes],
      [ok |-> TRUE, bars |-> FallbackMinutes], [ok |-> TRUE, bars |-> LateMinutes] }

\* every request got an answer: the map holds the dates answered with 200
Fetch1MinOK(choices) ==
    /\ pc = "fetch1m"
    /\ LET ds == SortStrings(DistinctDates(points, 1, << >>))
       IN  \E f \in [{ds[k] : k \in 1..Len(ds)} -> choices] :
              /\ dates' = ds
              /\ requests' = ds
              /\ minutesByDate' = [d \in {x \in DOMAIN f : f[x].ok} |->
                                       MinuteBarsOn(d, f[d].bars)]
    /\ pc' = "first15"
    /\ UNCHANGED <<paramVars, status, daily, resp, runVars, dailyVars>>

\* faulty variant of Fetch1MinFail: the request is aborted as for the daily fetch
Fetch1MinFailAborts ==
    /\ pc = "fetch1m"
    /\ LET ds == SortStrings(DistinctDates(points, 1, << >>))
       IN  \E n \in 1..Len(ds) :
              /\ dates' = ds
              /\ requests' = SubSeq(ds, 1, n)
    /\ status' = 502
    /\ pc' = "failed"
    /\ UNCHANGED <<paramVars, daily, resp, minutesByDate, runVars, dailyVars>>

\* http.Get fails on the n-th date: daily results go out with an error message
Fetch1MinFail ==
    /\ pc = "fetch1m"
    /\ LET ds == SortStrings(DistinctDates(points, 1, << >>))
       IN  \E n \in 1..Len(ds) :
              /\ dates' = ds
              /\ requests' = SubSeq(ds, 1, n)
    /\ resp' = [resp EXCEPT !.Success = FALSE, !.Error = "intraday fetch failed"]
    /\ status' = 200
    /\ pc' = "done"
    /\ UNCHANGED <<paramVars, daily, minutesByDate, runVars, dailyVars>>

\* ------------------------------------------------------------------------
\* analyzeFirst15
\* ------------------------------------------------------------------------

ZeroAgg15 ==
    [count |-> 0, cont |-> 0, filledBy0945 |-> 0, sumFade |-> Zero, sumFollow |-> Zero]

AddAgg15(a, followRet, fadeRet, cont, filled) ==
    [count        |-> a.count + 1,
     cont         |-> a.cont + cont,
     filledBy0945 |-> a.filledBy0945 + filled,
     sumFade      |-> RAdd(a.sumFade, fadeRet),
     sumFollow    |-> RAdd(a.sumFollow, followRet)]

\* m[key], created empty when absent, then updated
Upsert15(m, key, followRet, fadeRet, cont, filled) ==
    [l \in DOMAIN m \cup {key} |->
        IF l = key
        THEN AddAgg15(IF key \in DOMAIN m THEN m[key] ELSE ZeroAgg15,
                      followRet, fadeRet, cont, filled)
        ELSE m[l]]

\* 09:30..09:44 (NY)
InFirst15(b) ==
    LET ny == toNY(b.T) IN Hour(ny) = 9 /\ Minute(ny) >= 30 /\ Minute(ny) <= 44

\* the fallback filter: hour 9, minute <= 45
InFallback(b) ==
    LET ny == toNY(b.T) IN Hour(ny) = 9 /\ Minute(ny) <= 45

RthOf(mins) ==
    LET primary == SelectSeq(mins, InFirst15)
    IN  IF Len(primary) = 0 THEN SelectSeq(mins, InFallback) ELSE primary

\* open of the first bar of rth whose minute is 30, else 0
RECURSIVE Open0930Of(_, _)
Open0930Of(rth, k) ==
    IF k > Len(rth) THEN 0
    ELSE IF Minute(toNY(rth[k].T)) = 30 THEN rth[k].O
    ELSE Open0930Of(rth, k + 1)

\* faulty variant of Filled0945Of: only the last bar of the window is looked at
Filled0945OfLast(dir, rth, prevClose) ==
    IF dir = 1 THEN (IF rth[Len(rth)].L <= prevClose THEN 1 ELSE 0)
    ELSE IF dir = -1 THEN (IF rth[Len(rth)].H >= prevClose THEN 1 ELSE 0)
    ELSE 0

Filled0945Of(dir, rth, prevClose) ==
    IF dir = 1 THEN (IF \E k \in 1..Len(rth) : rth[k].L <= prevClose THEN 1 ELSE 0)
    ELSE IF dir = -1 THEN (IF \E k \in 1..Len(rth) : rth[k].H >= prevClose THEN 1 ELSE 0)
    ELSE 0

\* what one point contributes; ok is FALSE where the loop says continue
Session15(p, mbd) ==
    LET mins      == IF p.Date \in DOMAIN mbd THEN mbd[p.Date] ELSE << >>
        rth       == RthOf(mins)
        at0930    == Open0930Of(rth, 1)
        open0930  == IF at0930 = 0 THEN p.Open ELSE at0930
        close0945 == rth[Len(rth)].C
        ret15     == RMul(RDiv(RSub(R(close0945), R(open0930)), R(open0930)), R(100))
    IN  IF Len(mins) = 0 \/ Len(rth) = 0 \/ open0930 <= 0
        THEN [ok |-> FALSE]
        ELSE [ok         |-> TRUE,
              ret15      |-> ret15,
              cont15     |-> SameDirOf(ret15, p.Direction),
              filled0945 |-> Filled0945Of(p.Direction, rth, p.PrevClose),
              followRet15 |-> FollowRetOf(p.Direction, ret15),
              fadeRet15   |-> FadeRetOf(p.Direction, ret15)]

\* the fresh accumulators of analyzeFirst15
Acc15Init(bs, pts) ==
    [binAgg15  |-> [l \in {bs[k].lab : k \in 1..Len(bs)} |-> ZeroAgg15],
     upAgg15   |-> ZeroAgg15,
     downAgg15 |-> ZeroAgg15,
     dowAgg15  |-> [d \in Weekdays |-> ZeroAgg15],
     fadeSum15 |-> Zero, followSum15 |-> Zero,
     contCount15 |-> 0, filledBy0945Count |-> 0, sessions15 |-> 0,
     pts |-> pts]

\* faulty variant of WriteBack15: the return is added to the stored one
WriteBack15Adding(p, s) ==
    [p EXCEPT !.Ret15mPct = RAdd(@, round3(s.ret15)), !.FilledBy0945 = s.filled0945]

\* faulty variant of WriteBack15: the daily fill flag is overwritten as well
WriteBack15OverFilled(p, s) ==
    [p EXCEPT !.Ret15mPct = round3(s.ret15), !.FilledBy0945 = s.filled0945,
              !.Filled = s.filled0945]

\* p.Ret15mPct = round3(ret15); p.FilledBy0945 = filled0945
WriteBack15(p, s) ==
    [p EXCEPT !.Ret15mPct = round3(s.ret15), !.FilledBy0945 = s.filled0945]

\* faulty variant of Step15: a session without usable minutes is still counted
Step15CountsSkipped(a, k, mbd) ==
    LET p == a.pts[k]
        s == Session15(p, mbd)
    IN  IF ~s.ok THEN [a EXCEPT !.sessions15 = @ + 1]
        ELSE [a EXCEPT !.sessions15 = @ + 1, !.pts[k] = WriteBack15(p, s)]

\* one iteration of  for i := range pts
Step15(a, k, mbd) ==
    LET p == a.pts[k]
        s == Session15(p, mbd)
    IN  IF ~s.ok THEN a
        ELSE [binAgg15  |-> Upsert15(a.binAgg15, p.Bin, s.followRet15, s.fadeRet15,
                                     s.cont15, s.filled0945),
              upAgg15   |-> IF p.Direction = 1
                            THEN AddAgg15(a.upAgg15, s.followRet15, s.fadeRet15,
                                          s.cont15, s.filled0945)
                            ELSE a.upAgg15,
              downAgg15 |-> IF p.Direction = 1 THEN a.downAgg15
                            ELSE AddAgg15(a.downAgg15, s.followRet15, s.fadeRet15,
                                          s.cont15, s.filled0945),
              dowAgg15  |-> Upsert15(a.dowAgg15, p.DayOfWeek, s.followRet15, s.fadeRet15,
                                     s.cont15, s.filled0945),
              fadeSum15 |-> RAdd(a.fadeSum15, s.fadeRet15),
              followSum15 |-> RAdd(a.followSum15, s.followRet15),
              contCount15 |-> a.contCount15 + s.cont15,
              filledBy0945Count |-> a.filledBy0945Count + s.filled0945,
              sessions15 |-> a.sessions15 + 1,
              pts |-> [a.pts EXCEPT ![k] = WriteBack15(p, s)]]

RECURSIVE Loop15(_, _, _)
Loop15(a, k, mbd) ==
    IF k > Len(a.pts) THEN a ELSE Loop15(Step15(a, k, mbd), k + 1, mbd)

Summary15Of(a) ==
    LET n == a.sessions15
        contRate15   == IF n > 0 THEN Pct(a.contCount15, n) ELSE Zero
        fadeAvg15    == IF n > 0 THEN RDiv(a.fadeSum15, R(n)) ELSE Zero
        followAvg15  == IF n > 0 THEN RDiv(a.followSum15, R(n)) ELSE Zero
        fill0945Rate == IF n > 0 THEN Pct(a.filledBy0945Count, n) ELSE Zero
        b            == BestOf(followAvg15, fadeAvg15)
    IN  [Sessions          |-> n,
         ContinuationRate  |-> round1(contRate15),
         FadeAvg           |-> round3(fadeAvg15),
         FollowAvg         |-> round3(followAvg15),
         BestStrategy      |-> b.best,
         ExpectedReturn    |-> round3(b.exp),
         GapFillBy0945Rate |-> round1(fill0945Rate)]

ZeroBinStat15(lab) ==
    [Label |-> lab, Count |-> 0, ContinuationRate |-> Zero, GapFillBy0945Rate |-> Zero,
     FadeAvg |-> Zero, FollowAvg |-> Zero, Recommendation |-> ""]

BinStat15Of(lab, ba) ==
    IF ba.count = 0 THEN ZeroBinStat15(lab)
    ELSE [Label             |-> lab,
          Count             |-> ba.count,
          ContinuationRate  |-> round1(Pct(ba.cont, ba.count)),
          GapFillBy0945Rate |-> round1(Pct(ba.filledBy0945, ba.count)),
          FadeAvg           |-> round3(RDiv(ba.sumFade, R(ba.count))),
          FollowAvg         |-> round3(RDiv(ba.sumFollow, R(ba.count))),
          Recommendation    |-> Recommendation(Pct(ba.cont, ba.count))]

\* the response after analyzeFirst15(&r, mbd)
AnalyzeFirst15(r, mbd) ==
    IF Len(r.Data) = 0 THEN r
    ELSE LET bs == defaultBins(r.MinGap)
             a  == Loop15(Acc15Init(bs, r.Data), 1, mbd)
         IN  [r EXCEPT
                !.Summary15  = Summary15Of(a),
                !.Bins15     = [k \in 1..Len(bs) |->
                                   BinStat15Of(bs[k].lab, a.binAgg15[bs[k].lab])],
                !.UpSide15   = StatOf(a.upAgg15),
                !.DownSide15 = StatOf(a.downAgg15),
                !.ByDOW15    = [k \in DOMAIN a.dowAgg15 |-> StatOf(a.dowAgg15[k])],
                !.Data       = a.pts]

\* Step 3 of handleAnalyze, and the response
First15 ==
    /\ pc = "first15"
    /\ resp' = AnalyzeFirst15(resp, minutesByDate)
    /\ points' = resp'.Data
    /\ status' = 200
    /\ pc' = "done"
    /\ UNCHANGED <<paramVars, daily, fetchVars, runVars,
                   i, bins, binAgg, upAgg, downAgg, dowAgg,
                   fadeSum, followSum, contCount, upCount, downCount,
                   meanAbsGap, maxGapUp, maxGapDown,
                   cumFade, cumFollow, cumDates, cumFadeArr, cumFollowArr>>

\* the same analysis once more, on the bars and minutes already fetched
Rerun ==
    /\ pc = "done"
    /\ ~rerun
    /\ resp.Error # "intraday fetch failed"
    /\ firstResp' = resp
    /\ rerun' = TRUE
    /\ pc' = "analyzeDaily"
    /\ UNCHANGED <<paramVars, status, daily, fetchVars, resp, dailyVars, serverVars>>

\* ------------------------------------------------------------------------
\* The bin statistics as a function of a bin's counters alone
\* ------------------------------------------------------------------------

MaxCount == 10

\* a bin that counted `count` sessions, `cont` of them continuations
InitBinStat ==
    /\ pc = "binStat"
    /\ query \in {q \in Queries : q.ticker = ""}
    /\ \E count \in 0..MaxCount : \E cont \in 0..count :
          binAgg = [l \in {">1.5%"} |-> [ZeroAgg EXCEPT !.count = count, !.cont = cont]]
    /\ InitRest

\* the entries analyzeDaily and analyzeFirst15 emit for that bin
ApplyBinStat ==
    /\ pc = "binStat"
    /\ LET ba   == binAgg[">1.5%"]
           ba15 == [ZeroAgg15 EXCEPT !.count = ba.count, !.cont = ba.cont]
       IN  resp' = [resp EXCEPT !.Bins   = <<BinStatOf(">1.5%", ba)>>,
                                !.Bins15 = <<BinStat15Of(">1.5%", ba15)>>]
    /\ pc' = "binStatDone"
    /\ UNCHANGED <<handlerVars, dailyVars>>

NextBinStat == ApplyBinStat

SpecBinStat == InitBinStat /\ [][NextBinStat]_vars

\* ------------------------------------------------------------------------
\* The bins as a function of the threshold alone
\* ------------------------------------------------------------------------

MaxHundredths == 150

\* a request whose minGap is given to two decimals: 0.01 .. 1.50
InitBins ==
    /\ pc = "bins"
    /\ \E h \in 1..MaxHundredths :
          query = [ticker |-> "SPY", years |-> AbsentInt, minGap |-> Given(Rat(h, 100))]
    /\ binAgg = << >>
    /\ InitRest

\* the threshold as handleAnalyze parses it and the bins analyzeDaily builds from it
ApplyDefaultBins ==
    /\ pc = "bins"
    /\ minGap' = ParseMinGap(query.minGap)
    /\ bins' = defaultBins(minGap')
    /\ pc' = "binsDone"
    /\ UNCHANGED <<query, ticker, years, status, daily, resp, fetchVars, runVars,
                   i, accVars>>

NextBins == ApplyDefaultBins

SpecBins == InitBins /\ [][NextBins]_vars

\* ------------------------------------------------------------------------
\* Specifications
\* ------------------------------------------------------------------------

\* <<open, close>> of the bars of the runs that are repeated
PoolTwice == { <<200, 199>>, <<200, 201>>, <<202, 199>>, <<200, 100>> }

Next ==
    \/ ParseRequest
    \/ FetchDailyOK(PoolOC)
    \/ FetchDailyFail
    \/ DailyBegin
    \/ DailyStep
    \/ DailyFill
    \/ Fetch1MinOK(MinuteChoices)
    \/ Fetch1MinFail
    \/ First15

Spec == Init /\ [][Next]_vars

NextTwice ==
    \/ ParseRequest
    \/ FetchDailyOK(PoolTwice)
    \/ FetchDailyFail
    \/ DailyBegin
    \/ DailyStep
    \/ DailyFill
    \/ Fetch1MinOK(MinuteChoices)
    \/ Fetch1MinFail
    \/ First15
    \/ Rerun

SpecTwice == Init /\ [][NextTwice]_vars

\* bars with their own high and low.  After a close of 200: open 202 with
\* low 201 (gap up, not filled, closing lower at 198), open 202 with low 200
\* (gap up, filled), open 198 with high 200 (gap down, filled), open 198
\* with high 199 (gap down, not filled).
PoolHighLow ==
    { <<200, 200, 200, 200>>, <<202, 198, 204, 201>>, <<202, 200, 203, 200>>,
      <<198, 200, 200, 198>>, <<198, 200, 199, 197>> }

NextHighLow ==
    \/ ParseRequest
    \/ FetchDailyOK(PoolHighLow)
    \/ FetchDailyFail
    \/ DailyBegin
    \/ DailyStep
    \/ DailyFill
    \/ Fetch1MinOK(MinuteChoices)
    \/ Fetch1MinFail
    \/ First15

\* also a threshold of exactly 1%: the opens 202 and 198 after a close of 200
\* are gaps of exactly +1% and -1%
QueriesHighLow ==
    Queries \cup { [ticker |-> "SPY", years |-> GivenInt(1), minGap |-> Given(R(1))] }

InitHighLow ==
    /\ pc = "request"
    /\ query \in QueriesHighLow
    /\ binAgg = << >>
    /\ InitRest

SpecHighLow == InitHighLow /\ [][NextHighLow]_vars

NextMinutes ==
    \/ ParseRequest
    \/ FetchDailyOK(PoolTwice)
    \/ FetchDailyFail
    \/ DailyBegin
    \/ DailyStep
    \/ DailyFill
    \/ Fetch1MinOK(MinuteChoicesWide)
    \/ Fetch1MinFail
    \/ First15

SpecMinutes == Init /\ [][NextMinutes]_vars

\* <<open, close>> of the bars of the runs that look at the opening window
PoolOpening == { <<200, 199>>, <<202, 201>> }

NextOpening ==
    \/ ParseRequest
    \/ FetchDailyOK(PoolOpening)
    \/ FetchDailyFail
    \/ DailyBegin
    \/ DailyStep
    \/ DailyFill
    \/ Fetch1MinOK(MinuteChoicesOpening)
    \/ Fetch1MinFail
    \/ First15

SpecOpening == Init /\ [][NextOpening]_vars

\* requests with years and minGap below, above and inside their ranges
QueriesWide ==
    { [ticker |-> "",    years |-> GivenInt(3), minGap |-> Given(Rat(1, 2))],
      [ticker |-> "SPY", years |-> AbsentInt,   minGap |-> Absent],
      [ticker |-> "SPY", years |-> GivenInt(0), minGap |-> Given(Zero)],
      [ticker |-> "SPY", years |-> GivenInt(6), minGap |-> Given(R(-1))],
      [ticker |-> "SPY", years |-> GivenInt(5), minGap |-> Given(R(20))],
      [ticker |-> "SPY", years |-> GivenInt(1), minGap |-> Given(Rat(1, 2))] }

InitParams ==
    /\ pc = "request"
    /\ query \in QueriesWide
    /\ binAgg = << >>
    /\ InitRest

NextParams ==
    \/ ParseRequest
    \/ FetchDailyOK(PoolTwice)
    \/ FetchDailyFail
    \/ DailyBegin
    \/ DailyStep
    \/ DailyFill
    \/ Fetch1MinOK(MinuteChoices)
    \/ Fetch1MinFail
    \/ First15

SpecParams == InitParams /\ [][NextParams]_vars

\* ------------------------------------------------------------------------
\* Two requests in flight: net/http serves each in a goroutine of its own
\* ------------------------------------------------------------------------

\* the locals of the handleAnalyze invocation that is running
Locals ==
    [pc |-> pc, query |-> query, ticker |-> ticker, years |-> years,
     minGap |-> minGap, status |-> status, daily |-> daily, resp |-> resp,
     dates |-> dates, requests |-> requests,
     minutesByDate |-> minutesByDate, firstResp |-> firstResp,
     rerun |-> rerun, i |-> i, bins |-> bins, binAgg |-> binAgg,
     upAgg |-> upAgg, downAgg |-> downAgg, dowAgg |-> dowAgg,
     points |-> points, fadeSum |-> fadeSum, followSum |-> followSum,
     contCount |-> contCount, upCount |-> upCount, downCount |-> downCount,
     meanAbsGap |-> meanAbsGap, maxGapUp |-> maxGapUp,
     maxGapDown |-> maxGapDown, cumFade |-> cumFade,
     cumFollow |-> cumFollow, cumDates |-> cumDates,
     cumFadeArr |-> cumFadeArr, cumFollowArr |-> cumFollowArr]

\* the locals of an invocation that has not started on request q
FreshRequest(q) ==
    [pc |-> "request", query |-> q, ticker |-> "", years |-> 0,
     minGap |-> Zero, status |-> 0, daily |-> << >>, resp |-> ZeroResponse,
     dates |-> << >>, requests |-> << >>, minutesByDate |-> << >>,
     firstResp |-> ZeroResponse, rerun |-> FALSE, i |-> 0, bins |-> << >>,
     binAgg |-> << >>, upAgg |-> ZeroAgg, downAgg |-> ZeroAgg,
     dowAgg |-> << >>, points |-> << >>, fadeSum |-> Zero,
     followSum |-> Zero, contCount |-> 0, upCount |-> 0, downCount |-> 0,
     meanAbsGap |-> Zero, maxGapUp |-> Zero, maxGapDown |-> Zero,
     cumFade |-> Zero, cumFollow |-> Zero, cumDates |-> << >>,
     cumFadeArr |-> << >>, cumFollowArr |-> << >>]

\* what main finds in the flags and in the environment
Environments ==
    { [apikey |-> "",        POLYGON_API_KEY |-> "",       port |-> 0,    PORT |-> 0],
      [apikey |-> "",        POLYGON_API_KEY |-> "envkey", port |-> 0,    PORT |-> 0],
      [apikey |-> "flagkey", POLYGON_API_KEY |-> "envkey", port |-> 9000, PORT |-> 8000] }

\* main: the key and the port are set, then the server listens; without a
\* key the process exits
Main ==
    /\ pc = "main"
    /\ \E env \in Environments :
          LET key == IF env.apikey # "" THEN env.apikey ELSE env.POLYGON_API_KEY
          IN  /\ polygonAPIKey' = key
              /\ IF key = ""
                 THEN /\ pc' = "fatal"
                      /\ UNCHANGED listenPort
                 ELSE /\ listenPort' = IF env.port # 0 THEN env.port
                                       ELSE IF env.PORT # 0 THEN env.PORT
                                       ELSE 8083
                      /\ pc' = "request"
    /\ UNCHANGED <<paramVars, status, daily, resp, fetchVars, firstResp, rerun,
                   parked, dailyVars>>

\* faulty variant of Switch: the event list is one package-level slice
SwitchSharingPoints ==
    /\ pc \notin {"main", "fatal"}
    /\ parked.pc # "none"
    /\ ~rerun /\ ~parked.rerun
    /\ parked' = Locals
    /\ pc' = parked.pc /\ query' = parked.query /\ ticker' = parked.ticker
    /\ years' = parked.years /\ minGap' = parked.minGap
    /\ status' = parked.status /\ daily' = parked.daily /\ resp' = parked.resp
    /\ dates' = parked.dates /\ requests' = parked.requests
    /\ minutesByDate' = parked.minutesByDate /\ firstResp' = parked.firstResp
    /\ rerun' = parked.rerun /\ i' = parked.i /\ bins' = parked.bins
    /\ binAgg' = parked.binAgg /\ upAgg' = parked.upAgg
    /\ downAgg' = parked.downAgg /\ dowAgg' = parked.dowAgg
    /\ points' = points /\ fadeSum' = parked.fadeSum
    /\ followSum' = parked.followSum /\ contCount' = parked.contCount
    /\ upCount' = parked.upCount /\ downCount' = parked.downCount
    /\ meanAbsGap' = parked.meanAbsGap /\ maxGapUp' = parked.maxGapUp
    /\ maxGapDown' = parked.maxGapDown /\ cumFade' = parked.cumFade
    /\ cumFollow' = parked.cumFollow /\ cumDates' = parked.cumDates
    /\ cumFadeArr' = parked.cumFadeArr /\ cumFollowArr' = parked.cumFollowArr
    /\ UNCHANGED <<polygonAPIKey, listenPort>>

\* the scheduler takes the running goroutine off and puts the other one on:
\* each invocation keeps its own locals, the package-level variables stay
Switch ==
    /\ pc \notin {"main", "fatal"}
    /\ parked.pc # "none"
    /\ ~rerun /\ ~parked.rerun
    /\ parked' = Locals
    /\ pc' = parked.pc /\ query' = parked.query /\ ticker' = parked.ticker
    /\ years' = parked.years /\ minGap' = parked.minGap
    /\ status' = parked.status /\ daily' = parked.daily /\ resp' = parked.resp
    /\ dates' = parked.dates /\ requests' = parked.requests
    /\ minutesByDate' = parked.minutesByDate /\ firstResp' = parked.firstResp
    /\ rerun' = parked.rerun /\ i' = parked.i /\ bins' = parked.bins
    /\ binAgg' = parked.binAgg /\ upAgg' = parked.upAgg
    /\ downAgg' = parked.downAgg /\ dowAgg' = parked.dowAgg
    /\ points' = parked.points /\ fadeSum' = parked.fadeSum
    /\ followSum' = parked.followSum /\ contCount' = parked.contCount
    /\ upCount' = parked.upCount /\ downCount' = parked.downCount
    /\ meanAbsGap' = parked.meanAbsGap /\ maxGapUp' = parked.maxGapUp
    /\ maxGapDown' = parked.maxGapDown /\ cumFade' = parked.cumFade
    /\ cumFollow' = parked.cumFollow /\ cumDates' = parked.cumDates
    /\ cumFadeArr' = parked.cumFadeArr /\ cumFollowArr' = parked.cumFollowArr
    /\ UNCHANGED <<polygonAPIKey, listenPort>>

\* the analysis of the request that is running, once more and alone: the
\* other request is over
RerunAlone ==
    /\ parked.pc \in {"done", "failed", "rejected"}
    /\ Rerun

\* the two requests
QueryOne == [ticker |-> "SPY", years |-> AbsentInt, minGap |-> Given(R(20))]
QueryTwo == [ticker |-> "QQQ", years |-> GivenInt(5), minGap |-> Given(Rat(2, 5))]

\* <<open, close>> of the daily bars of the two tickers: gaps of +0.5025%
\* for the one and of +0.4975% for the other
PoolSPY == { <<200, 199>> }
PoolQQQ == { <<202, 201>> }

\* before main: no key, no port, two requests to come
InitPair ==
    /\ pc = "main"
    /\ query = QueryOne
    /\ binAgg = << >>
    /\ InitLocals
    /\ polygonAPIKey = "" /\ listenPort = 0
    /\ parked = FreshRequest(QueryTwo)

NextPair ==
    \/ Main
    \/ ParseRequest
    \/ (ticker = "SPY" /\ FetchDailyOK(PoolSPY))
    \/ (ticker = "QQQ" /\ FetchDailyOK(PoolQQQ))
    \/ FetchDailyFail
    \/ DailyBegin
    \/ DailyStep
    \/ DailyFill
    \/ Fetch1MinOK(MinuteChoices)
    \/ Fetch1MinFail
    \/ First15
    \/ Switch
    \/ RerunAlone

SpecPair == InitPair /\ [][NextPair]_vars

\* ------------------------------------------------------------------------
\* Properties
\* ------------------------------------------------------------------------

\* analyzeDaily has returned
DailyReturned == pc \in {"fetch1m", "first15", "done"}

\* analyzeDaily has returned from the end of its loop
DailyAnalyzed == DailyReturned /\ Len(daily) >= 2

\* |open - prevClose| / prevClose * 100 >= minGap, in integers
AtLeastMinGap(prevClose, open) ==
    AbsInt(open - prevClose) * 100 * minGap.d >= minGap.n * prevClose

\* the pairs (daily[j-1], daily[j]) an event can have come from
PairsOf(e) ==
    { j \in 2..Len(daily) : /\ DateOf(daily[j].T - NYOffset + DayMinutes) = e.Date
                            /\ daily[j].O = e.Open
                            /\ daily[j - 1].C = e.PrevClose }

FromQualifyingPair(e) ==
    \E j \in PairsOf(e) : daily[j - 1].C > 0 /\ AtLeastMinGap(daily[j - 1].C, daily[j].O)

\* C1: given at least 2 daily bars and minGap > 0, the daily pass emits at
\* most len(bars) - 1 events, and every event comes from a pair of
\* consecutive bars with prev.Close > 0 whose unrounded absolute gap
\* percentage is at least minGap.
C1_EventsFromQualifyingPairs ==
    (Len(daily) >= 2 /\ minGap.n > 0) =>
        /\ Len(points) <= Len(daily) - 1
        /\ \A k \in 1..Len(points) : FromQualifyingPair(points[k])
        /\ DailyReturned =>
              /\ Len(resp.Data) <= Len(daily) - 1
              /\ \A k \in 1..Len(resp.Data) : FromQualifyingPair(resp.Data[k])

\* three bars, one event, the other pair filtered for a gap below minGap
C1_Witness ==
    /\ pc = "done"
    /\ Len(daily) = 3
    /\ Len(resp.Data) = 1
    /\ \E j \in 2..3 : /\ daily[j - 1].C > 0
                       /\ daily[j].O > daily[j - 1].C
                       /\ ~AtLeastMinGap(daily[j - 1].C, daily[j].O)

\* the pairs among the first n bars that yield an event
QualifyingUpTo(n) ==
    { j \in 2..MinOf(n, Len(daily)) : /\ daily[j - 1].C > 0
                                      /\ daily[j].O > 0
                                      /\ AtLeastMinGap(daily[j - 1].C, daily[j].O) }

ExpectedKeys(n) ==
    LET js == SortAsc(QualifyingUpTo(n))
    IN  [k \in 1..Len(js) |->
            <<DateOf(daily[js[k]].T - NYOffset + DayMinutes),
              daily[js[k] - 1].C, daily[js[k]].O, daily[js[k]].C>>]

KeysOf(pts) ==
    [k \in 1..Len(pts) |-> <<pts[k].Date, pts[k].PrevClose, pts[k].Open, pts[k].Close>>]

C2_SkipStep ==
    (pc = "loop" /\ i < Len(daily) /\ (daily[i].C <= 0 \/ daily[i + 1].O <= 0))
        => (accVars' = accVars /\ resp' = resp /\ i' = i + 1)

\* C2: a pair with prevClose <= 0 or open <= 0 is skipped with no change to
\* any counter, sum or aggregate, and the sessions after it are still
\* paired each with its immediate predecessor.
C2_SkipKeepsPairing ==
    /\ [][C2_SkipStep]_vars
    /\ [](pc = "loop" => KeysOf(points) = ExpectedKeys(i))
    /\ [](DailyReturned => KeysOf(resp.Data) = ExpectedKeys(Len(daily)))

\* a session with open <= 0 was skipped, and the next session is an event
\* whose previous close is the close of the skipped session
C2_Witness ==
    /\ pc = "done"
    /\ \E j \in 2..(Len(daily) - 1) :
          /\ daily[j].O <= 0
          /\ \E k \in 1..Len(resp.Data) :
                /\ resp.Data[k].Date = DateOf(daily[j + 1].T - NYOffset + DayMinutes)
                /\ resp.Data[k].PrevClose = daily[j].C

\* C3: the continuation count never exceeds Summary.Sessions, and with
\* minGap > 0 Summary.GapUps + Summary.GapDowns = Summary.Sessions.
C3_CountsWithinSessions ==
    /\ contCount <= Len(points)
    /\ minGap.n > 0 => upCount + downCount = Len(points)
    /\ DailyReturned =>
          /\ resp.Summary.Sessions = Len(resp.Data)
          /\ contCount <= resp.Summary.Sessions
          /\ resp.Summary.GapUps + resp.Summary.GapDowns <= resp.Summary.Sessions
          /\ minGap.n > 0 =>
                resp.Summary.GapUps + resp.Summary.GapDowns = resp.Summary.Sessions

\* a gap up and a gap down, one of them continued
C3_Witness ==
    /\ pc = "done"
    /\ resp.Summary.Sessions = 2
    /\ resp.Summary.GapUps = 1
    /\ resp.Summary.GapDowns = 1
    /\ contCount = 1

RECURSIVE SumCounts(_, _)
SumCounts(bs, k) == IF k = 0 THEN 0 ELSE bs[k].Count + SumCounts(bs, k - 1)

EventsIn(pts, lab) == { k \in 1..Len(pts) : pts[k].Bin = lab }

\* C4: the sum of Count over the four bins equals the number of events
\* whose Bin is not "other"; events labelled "other" are counted in
\* Summary.Sessions and in no bin.
C4_BinCountsExcludeOther ==
    DailyReturned =>
        /\ Len(daily) >= 2 => Len(resp.Bins) = 4
        /\ \A k \in 1..Len(resp.Bins) :
              /\ resp.Bins[k].Label # "other"
              /\ resp.Bins[k].Count =
                    Cardinality(EventsIn(resp.Data, resp.Bins[k].Label))
        /\ SumCounts(resp.Bins, Len(resp.Bins)) =
              Len(resp.Data) - Cardinality(EventsIn(resp.Data, "other"))
        /\ resp.Summary.Sessions = Len(resp.Data)

\* one event in a bin (a continuation or not) and one labelled "other"
C4_Witness ==
    /\ pc = "done"
    /\ Len(resp.Data) = 2
    /\ Cardinality(EventsIn(resp.Data, "other")) = 1
    /\ SumCounts(resp.Bins, 4) = 1
    /\ resp.Summary.Sessions = 2

\* C5: every event whose absolute gap is at least minGap falls in exactly
\* one of the four bins [minGap,0.5), [0.5,1.0), [1.0,1.5), [1.5,+inf), so
\* no event is labelled "other".
C5_EveryEventBinned ==
    \A k \in 1..Len(points) : points[k].Bin # "other"

\* the last entry of a cumulative array
LastOf(seq) == seq[Len(seq)]

Thousandths(x) == Rat(RoundScaled(x, 1000), 1000)

C6_ArraysAligned ==
    /\ Len(resp.CumDates) = Len(resp.Data)
    /\ Len(resp.CumFollow) = Len(resp.Data)
    /\ Len(resp.CumFade) = Len(resp.Data)
    /\ \A k \in 1..Len(resp.Data) : resp.CumDates[k] = resp.Data[k].Date
    /\ \A k \in 1..(Len(resp.Data) - 1) : resp.CumDates[k] < resp.CumDates[k + 1]

\* C6 as stated: the cumulative arrays are as long as Data and in session
\* order, and the last entries of CumFollow and CumFade equal the sums of
\* follow and fade returns that the Summary averages are computed from.
C6_CumLastIsSum ==
    DailyReturned =>
        /\ C6_ArraysAligned
        /\ Len(resp.Data) > 0 => /\ LastOf(resp.CumFollow) = followSum
                                 /\ LastOf(resp.CumFade) = fadeSum

\* C6: the cumulative arrays are as long as Data and in session order, and
\* the last entries of CumFollow and CumFade equal the sums of follow and
\* fade returns, rounded to three decimals, that the Summary averages are
\* computed from.
C6_CumLastIsRoundedSum ==
    DailyReturned =>
        /\ C6_ArraysAligned
        /\ Len(resp.Data) > 0 =>
              /\ LastOf(resp.CumFollow) = Thousandths(followSum)
              /\ LastOf(resp.CumFade) = Thousandths(fadeSum)
              /\ resp.Summary.FollowAvg =
                    Thousandths(RDiv(followSum, R(Len(resp.Data))))
              /\ resp.Summary.FadeAvg =
                    Thousandths(RDiv(fadeSum, R(Len(resp.Data))))

\* two events whose summed return has more than three decimals
C6_Witness ==
    /\ pc = "done"
    /\ Len(resp.Data) = 2
    /\ LastOf(resp.CumFollow) # followSum
    /\ LastOf(resp.CumFollow).n # 0

\* C7: running the whole analysis again on the same bars and minute data
\* gives the same output, and applying the intraday pass to an output it
\* already enriched gives that output again.
C7_RepeatableAndIdempotent ==
    (pc = "done" /\ resp.Error # "intraday fetch failed") =>
        /\ AnalyzeFirst15(resp, minutesByDate) = resp
        /\ rerun => resp = firstResp

\* the second run is over and a session had a non-zero first-15-minute return
C7_Witness ==
    /\ pc = "done"
    /\ rerun
    /\ resp.Summary15.Sessions >= 1
    /\ \E k \in 1..Len(resp.Data) : resp.Data[k].Ret15mPct.n # 0

\* FOLLOW iff cont/count*100 > 60, FADE iff < 40, NEUTRAL otherwise
StrictRule(rec, cont, count) ==
    /\ rec \in {"FOLLOW", "FADE", "NEUTRAL"}
    /\ rec = "FOLLOW" <=> 100 * cont > 60 * count
    /\ rec = "FADE" <=> 100 * cont < 40 * count

\* C8: a bin with Count > 0 is FOLLOW if and only if its unrounded
\* continuation rate is strictly above 60, FADE if and only if strictly
\* below 40, NEUTRAL otherwise (so at exactly 60 and exactly 40); the same
\* for the first-15-minute bins.
C8_RecommendationStrict ==
    (pc = "binStatDone" /\ binAgg[">1.5%"].count > 0) =>
        /\ StrictRule(resp.Bins[1].Recommendation,
                      binAgg[">1.5%"].cont, binAgg[">1.5%"].count)
        /\ StrictRule(resp.Bins15[1].Recommendation,
                      binAgg[">1.5%"].cont, binAgg[">1.5%"].count)

\* 3 continuations out of 5: exactly 60 percent
C8_Witness ==
    /\ pc = "binStatDone"
    /\ binAgg[">1.5%"].count = 5
    /\ binAgg[">1.5%"].cont = 3
    /\ resp.Bins[1].Recommendation = "NEUTRAL"
    /\ resp.Bins15[1].Recommendation = "NEUTRAL"

FiveDays == {"Mon", "Tue", "Wed", "Thu", "Fri"}

C9_FiveKeys ==
    /\ DOMAIN resp.ByDOW = FiveDays
    /\ \A d \in FiveDays :
          LET n == Cardinality({ k \in 1..Len(resp.Data) : resp.Data[k].DayOfWeek = d })
          IN  /\ resp.ByDOW[d].Count = n
              /\ n = 0 => /\ resp.ByDOW[d].ContinuationRate = Zero
                          /\ resp.ByDOW[d].FadeAvg = Zero
                          /\ resp.ByDOW[d].FollowAvg = Zero

\* C9 as stated: the ByDOW of a daily analysis always has exactly the keys
\* Mon..Fri, a weekday without events having all-zero statistics.
C9_AlwaysFiveKeys == DailyReturned => C9_FiveKeys

\* C9: the ByDOW of a daily analysis of at least two bars has exactly the
\* keys Mon..Fri, a weekday without events having all-zero statistics.
C9_FiveKeysWhenAnalyzed == DailyAnalyzed => C9_FiveKeys

\* an event on one weekday, none on another
C9_Witness ==
    /\ pc = "done"
    /\ Len(daily) >= 2
    /\ \E d \in FiveDays : resp.ByDOW[d].Count > 0
    /\ \E d \in FiveDays : resp.ByDOW[d].Count = 0

IntSign(x) == IF x > 0 THEN 1 ELSE IF x < 0 THEN -1 ELSE 0

ContinuationFlagOK(e) ==
    /\ e.Direction = IntSign(e.Open - e.PrevClose)
    /\ e.SameDir \in {0, 1}
    /\ e.SameDir = 1 <=> /\ e.Direction # 0
                         /\ e.Close # e.Open
                         /\ IntSign(e.Close - e.Open) = e.Direction

\* C10: an event is a continuation exactly when its gap direction is not
\* zero, its open-to-close return is not zero and the two have the same
\* sign; a session that closes at its open is never a continuation.
C10_ContinuationFlag ==
    /\ \A k \in 1..Len(points) : ContinuationFlagOK(points[k])
    /\ \A k \in 1..Len(resp.Data) : ContinuationFlagOK(resp.Data[k])

\* one event that closed at its open, one that continued
C10_Witness ==
    /\ pc = "done"
    /\ \E k \in 1..Len(resp.Data) :
          resp.Data[k].Close = resp.Data[k].Open /\ resp.Data[k].SameDir = 0
    /\ \E k \in 1..Len(resp.Data) : resp.Data[k].SameDir = 1

\* the pair (daily[j-1], daily[j]) the k-th event came from
PairOfEvent(k) == SortAsc(QualifyingUpTo(Len(daily)))[k]

GapFillFlagOK(e, prev, day) ==
    /\ e.Filled \in {0, 1}
    /\ e.Filled = 1 <=> \/ (e.Direction = 1 /\ day.L <= prev.C)
                        \/ (e.Direction = -1 /\ day.H >= prev.C)

\* C11: for every emitted event the gap-fill flag is 1 exactly when the gap
\* is up and the day's low is at or below the previous close, or the gap is
\* down and the day's high is at or above it; for a close of 100 followed by
\* open 101, high 102, low 100.5, close 99 (here doubled) with minGap 0.3
\* the one event has direction +1, continuation 0 and gap-fill 0.
C11_GapFillFlag ==
    /\ DailyReturned =>
          \A k \in 1..Len(resp.Data) :
              GapFillFlagOK(resp.Data[k], daily[PairOfEvent(k) - 1], daily[PairOfEvent(k)])
    /\ ( /\ DailyReturned
         /\ minGap = Rat(3, 10)
         /\ Len(daily) = 2
         /\ daily[1].C = 200
         /\ daily[2].O = 202 /\ daily[2].H = 204 /\ daily[2].L = 201 /\ daily[2].C = 198 )
       => /\ Len(resp.Data) = 1
          /\ resp.Data[1].Direction = 1
          /\ resp.Data[1].SameDir = 0
          /\ resp.Data[1].Filled = 0

\* a filled gap down, then the session of the example: a gap up that is
\* not filled and closes lower
C11_Witness ==
    /\ pc = "done"
    /\ minGap = Rat(3, 10)
    /\ Len(daily) = 3
    /\ daily[1].C = 200
    /\ daily[2].O = 198 /\ daily[2].H = 200 /\ daily[2].C = 200
    /\ daily[3].O = 202 /\ daily[3].H = 204 /\ daily[3].L = 201 /\ daily[3].C = 198
    /\ Len(resp.Data) = 2
    /\ resp.Data[1].Direction = -1 /\ resp.Data[1].Filled = 1
    /\ resp.Data[2].Direction = 1 /\ resp.Data[2].Filled = 0 /\ resp.Data[2].SameDir = 0

\* direction * (close - open) / open * 100 of an event, from its prices
FollowOfEvent(e) == Rat(e.Direction * (e.Close - e.Open) * 100, e.Open)

FadeOfEvent(e) == Rat((0 - e.Direction) * (e.Close - e.Open) * 100, e.Open)

RECURSIVE SumFollow(_, _)
SumFollow(pts, k) ==
    IF k = 0 THEN Zero ELSE RAdd(SumFollow(pts, k - 1), FollowOfEvent(pts[k]))

RECURSIVE SumFade(_, _)
SumFade(pts, k) ==
    IF k = 0 THEN Zero ELSE RAdd(SumFade(pts, k - 1), FadeOfEvent(pts[k]))

\* the sums of a keyed accumulator change for key `key` only, by fr and fd
KeyedSumsAdded(old, new, key, fr, fd) ==
    /\ DOMAIN new = DOMAIN old
    /\ \A l \in DOMAIN old :
          /\ new[l].sumFollow =
                IF l = key THEN RAdd(old[l].sumFollow, fr) ELSE old[l].sumFollow
          /\ new[l].sumFade =
                IF l = key THEN RAdd(old[l].sumFade, fd) ELSE old[l].sumFade
          /\ new[l].count = IF l = key THEN old[l].count + 1 ELSE old[l].count

SumsAdded(old, new, hit, fr, fd) ==
    /\ new.sumFollow = IF hit THEN RAdd(old.sumFollow, fr) ELSE old.sumFollow
    /\ new.sumFade = IF hit THEN RAdd(old.sumFade, fd) ELSE old.sumFade

\* a step of the daily loop that emits an event
C12_EventStep ==
    (pc = "loop" /\ Len(points') = Len(points) + 1) =>
        LET e  == points'[Len(points')]
            fr == FollowOfEvent(e)
            fd == FadeOfEvent(e)
        IN  /\ e.Direction = IntSign(e.Open - e.PrevClose)
            /\ followSum' = RAdd(followSum, fr)
            /\ fadeSum' = RAdd(fadeSum, fd)
            /\ cumFollow' = RAdd(cumFollow, fr)
            /\ cumFade' = RAdd(cumFade, fd)
            /\ cumFollowArr' = Append(cumFollowArr, Thousandths(RAdd(cumFollow, fr)))
            /\ cumFadeArr' = Append(cumFadeArr, Thousandths(RAdd(cumFade, fd)))
            /\ KeyedSumsAdded(binAgg, binAgg', e.Bin, fr, fd)
            /\ KeyedSumsAdded(dowAgg, dowAgg', e.DayOfWeek, fr, fd)
            /\ SumsAdded(upAgg, upAgg', e.Direction = 1, fr, fd)
            /\ SumsAdded(downAgg, downAgg', e.Direction # 1, fr, fd)

\* C12: the follow return of an event is direction * dailyReturn and the
\* fade return -direction * dailyReturn, on the unrounded daily return; each
\* event adds exactly these to the running sums, to the accumulators of its
\* bin (when its label is one of the bins), side and weekday, and to the
\* running cumulative sums, whose entries are plain sums of the returns so far.
C12_ReturnsAdded ==
    /\ [][C12_EventStep]_vars
    /\ [](DailyReturned =>
            /\ followSum = SumFollow(resp.Data, Len(resp.Data))
            /\ fadeSum = SumFade(resp.Data, Len(resp.Data))
            /\ \A k \in 1..Len(resp.Data) :
                  /\ resp.CumFollow[k] = Thousandths(SumFollow(resp.Data, k))
                  /\ resp.CumFade[k] = Thousandths(SumFade(resp.Data, k)))

\* a gap down and then a gap up whose return has more than three decimals
C12_Witness ==
    /\ pc = "done"
    /\ Len(resp.Data) = 2
    /\ resp.Data[1].Direction = -1
    /\ resp.Data[2].Direction = 1
    /\ resp.Data[2].Open = 202 /\ resp.Data[2].Close = 199
    /\ followSum # Zero
    /\ resp.CumFollow[2] # followSum

\* the averages of the events' follow and fade returns
FollowAvgOfEvents == RDiv(SumFollow(resp.Data, Len(resp.Data)), R(Len(resp.Data)))

FadeAvgOfEvents == RDiv(SumFade(resp.Data, Len(resp.Data)), R(Len(resp.Data)))

FollowIsBetter == Len(resp.Data) > 0 /\ RGt(FollowAvgOfEvents, FadeAvgOfEvents)

FadeIsBetter == Len(resp.Data) > 0 /\ RGt(FadeAvgOfEvents, FollowAvgOfEvents)

C13_BestStrategyRule ==
    /\ resp.Summary.BestStrategy \in {"FOLLOW", "FADE", "NEUTRAL"}
    /\ resp.Summary.BestStrategy = "FOLLOW" <=> FollowIsBetter
    /\ resp.Summary.BestStrategy = "FADE" <=> FadeIsBetter
    /\ resp.Summary.ExpectedReturn =
          IF FollowIsBetter THEN Thousandths(FollowAvgOfEvents)
          ELSE IF FadeIsBetter THEN Thousandths(FadeAvgOfEvents)
          ELSE Zero
    /\ FollowIsBetter => resp.Summary.ExpectedReturn = resp.Summary.FollowAvg
    /\ FadeIsBetter => resp.Summary.ExpectedReturn = resp.Summary.FadeAvg

\* C13 as stated: Summary.BestStrategy is FOLLOW iff the average follow
\* return is strictly greater than the average fade return, FADE iff the
\* average fade return is strictly greater, NEUTRAL otherwise, no events
\* included; Summary.ExpectedReturn is the chosen average, 0 when NEUTRAL.
C13_BestStrategyAlways == DailyReturned => C13_BestStrategyRule

\* C13: in the Summary of a daily analysis of at least two bars,
\* BestStrategy is FOLLOW iff the average follow return is strictly greater
\* than the average fade return, FADE iff the average fade return is
\* strictly greater, NEUTRAL otherwise, no events included; ExpectedReturn
\* is the chosen average (rounded to three decimals), 0 when NEUTRAL.
C13_BestStrategyWhenAnalyzed == DailyAnalyzed => C13_BestStrategyRule

\* fading was better: the one event is a gap up that closed below its open
C13_Witness ==
    /\ pc = "done"
    /\ Len(resp.Data) = 1
    /\ resp.Data[1].Direction = 1
    /\ resp.Data[1].Close < resp.Data[1].Open
    /\ resp.Summary.BestStrategy = "FADE"
    /\ resp.Summary.ExpectedReturn = resp.Summary.FadeAvg
    /\ resp.Summary.ExpectedReturn.n > 0

\* the response carries no event and no statistic, daily or 0-15m
NothingAnalyzed ==
    /\ resp.Data = << >>
    /\ resp.Summary = ZeroSummary
    /\ resp.Bins = << >>
    /\ DOMAIN resp.ByDOW = {}
    /\ resp.UpSide = ZeroStat /\ resp.DownSide = ZeroStat
    /\ resp.CumDates = << >> /\ resp.CumFade = << >> /\ resp.CumFollow = << >>
    /\ resp.Summary15 = ZeroSummary15
    /\ resp.Bins15 = << >>
    /\ DOMAIN resp.ByDOW15 = {}
    /\ resp.UpSide15 = ZeroStat /\ resp.DownSide15 = ZeroStat

C14_NoFetchStep ==
    (Len(daily) < 2 /\ pc \in {"analyzeDaily", "fetch1m", "first15"}) =>
        /\ requests' = << >>
        /\ pc' \in {"fetch1m", "first15", "done"}
        /\ pc' = "done" => status' = 200

\* C14: with fewer than 2 daily bars the analysis returns Success = false
\* with the message "not enough data", no events and no statistics; the
\* request still completes with a normal response, and no intraday bars
\* are requested.
C14_NotEnoughData ==
    /\ [][C14_NoFetchStep]_vars
    /\ []((Len(daily) < 2 /\ DailyReturned) =>
            /\ resp.Success = FALSE
            /\ resp.Error = "not enough data"
            /\ NothingAnalyzed
            /\ requests = << >>
            /\ pc = "done" => status = 200)
    /\ []((Len(daily) < 2 /\ pc \in {"analyzeDaily", "fetch1m", "first15"})
            => ENABLED Next)

\* one bar only: the response went out with status 200
C14_Witness ==
    /\ pc = "done"
    /\ Len(daily) = 1
    /\ status = 200
    /\ resp.Success = FALSE
    /\ resp.Error = "not enough data"
    /\ requests = << >>

\* C15: if the daily fetch fails the request ends there with a failure
\* status: no daily analysis is run, no intraday bars are requested, no
\* analytics result is produced, and nothing more happens (no retry).
C15_DailyFetchFailureIsTerminal ==
    /\ status = 502 => pc = "failed"
    /\ pc = "failed" =>
          /\ status = 502
          /\ daily = << >>
          /\ i = 0 /\ points = << >>
          /\ resp = ZeroResponse
          /\ dates = << >> /\ requests = << >>
          /\ ~ENABLED Next

\* the daily fetch of a well-formed request failed
C15_Witness ==
    /\ pc = "failed"
    /\ status = 502
    /\ ticker = "SPY"
    /\ minGap.n > 0

\* no 0-15m field of the response is set
NoFirst15 ==
    /\ resp.Summary15 = ZeroSummary15
    /\ resp.Bins15 = << >>
    /\ DOMAIN resp.ByDOW15 = {}
    /\ resp.UpSide15 = ZeroStat /\ resp.DownSide15 = ZeroStat
    /\ \A k \in 1..Len(resp.Data) :
          resp.Data[k].Ret15mPct = Zero /\ resp.Data[k].FilledBy0945 = 0

C16_FailStep ==
    (pc = "fetch1m" /\ pc' # "first15") =>
        /\ pc' = "done"
        /\ status' = 200
        /\ resp'.Error = "intraday fetch failed"
        /\ resp' = [resp EXCEPT !.Success = FALSE, !.Error = "intraday fetch failed"]

\* C16: if the intraday fetch fails after a successful daily fetch, the
\* request is not aborted: the response carries the complete daily results
\* (events, Summary, bins, sides, weekdays, cumulative series) and an error
\* message, and all 0-15m fields and tables are empty or zero.
C16_IntradayFailureKeepsDaily ==
    /\ [][C16_FailStep]_vars
    /\ []((pc = "done" /\ resp.Error = "intraday fetch failed") =>
            /\ status = 200
            /\ resp.Success = FALSE
            /\ resp.Data = points /\ Len(resp.Data) >= 1
            /\ resp.Summary = SummaryOf(Len(points))
            /\ resp.Bins = OutBins /\ Len(resp.Bins) = 4
            /\ resp.UpSide = StatOf(upAgg) /\ resp.DownSide = StatOf(downAgg)
            /\ DOMAIN resp.ByDOW = FiveDays
            /\ \A d \in FiveDays : resp.ByDOW[d] = StatOf(dowAgg[d])
            /\ resp.CumDates = cumDates
            /\ resp.CumFade = cumFadeArr /\ resp.CumFollow = cumFollowArr
            /\ NoFirst15)

\* the fetch failed on the first of two dates
C16_Witness ==
    /\ pc = "done"
    /\ status = 200
    /\ resp.Error = "intraday fetch failed"
    /\ Len(resp.Data) = 2
    /\ resp.Summary.Sessions = 2
    /\ Len(requests) = 1

\* the session dates of the qualifying pairs
EventDates ==
    { DateOf(daily[j].T - NYOffset + DayMinutes) : j \in QualifyingUpTo(Len(daily)) }

IsPrefix(a, b) == Len(a) <= Len(b) /\ \A k \in 1..Len(a) : a[k] = b[k]

C17_RequestStep ==
    (requests' # requests \/ dates' # dates \/ minutesByDate' # minutesByDate)
        => (pc = "fetch1m" /\ Len(daily) >= 2 /\ resp.Data = points)

\* C17 as stated: intraday bars are requested only after the daily fetch
\* succeeded and the daily filter ran, and the dates requested are exactly
\* the distinct session dates of the events that passed the filter, each
\* once, in ascending order, and no other date.
C17_RequestsAreEventDates ==
    /\ pc \in {"first15", "done"} => requests = SortAsc(EventDates)
    /\ pc \notin {"first15", "done"} => requests = << >>

\* C17: intraday bars are requested only after the daily fetch succeeded
\* and the daily filter ran; the dates handed to the intraday fetch are
\* exactly the distinct session dates of the events that passed the filter,
\* in ascending order; they are requested one by one in that order, each at
\* most once, all of them unless a request fails in transport, which ends
\* the fetch: the dates after the failed one are then never requested.
C17_RequestsFollowEventDates ==
    /\ [][C17_RequestStep]_vars
    /\ [](pc \notin {"first15", "done"} => requests = << >>)
    /\ [](pc \in {"first15", "done"} =>
            /\ dates = SortAsc(EventDates)
            /\ IsPrefix(requests, dates)
            /\ resp.Error # "intraday fetch failed" => requests = dates
            /\ resp.Error = "intraday fetch failed" => Len(requests) >= 1)

\* three bars, one event: one date requested, the other session's date not
C17_Witness ==
    /\ pc = "done"
    /\ resp.Error = ""
    /\ Len(daily) = 3
    /\ Len(resp.Data) = 1
    /\ Len(requests) = 1
    /\ requests[1] = resp.Data[1].Date
    /\ \E j \in 2..3 : DateOf(daily[j].T - NYOffset + DayMinutes) # requests[1]

\* the provider sent at least one minute bar for the event's date
HasMinutes(e) ==
    e.Date \in DOMAIN minutesByDate /\ Len(minutesByDate[e.Date]) > 0

\* minutes after New York midnight of a bar's stamp
MinuteOfDay(b) == (b.T - NYOffset) % DayMinutes

\* some bar lies in 09:30..09:44 or, failing that, in 09:00..09:45
HasOpeningMinutes(e) ==
    /\ HasMinutes(e)
    /\ \E k \in 1..Len(minutesByDate[e.Date]) :
          /\ MinuteOfDay(minutesByDate[e.Date][k]) >= 9 * 60
          /\ MinuteOfDay(minutesByDate[e.Date][k]) <= 9 * 60 + 45

UsableEvents == { k \in 1..Len(resp.Data) : HasOpeningMinutes(resp.Data[k]) }

OverlayDone == pc = "done" /\ resp.Error # "intraday fetch failed"

C18_OverlayStep ==
    pc = "first15" =>
        /\ resp'.Summary = resp.Summary /\ resp'.Bins = resp.Bins
        /\ resp'.ByDOW = resp.ByDOW
        /\ resp'.UpSide = resp.UpSide /\ resp'.DownSide = resp.DownSide
        /\ resp'.CumDates = resp.CumDates
        /\ resp'.CumFade = resp.CumFade /\ resp'.CumFollow = resp.CumFollow
        /\ resp'.Success = resp.Success /\ resp'.Error = resp.Error
        /\ Len(resp'.Data) = Len(resp.Data)
        /\ \A k \in 1..Len(resp.Data) :
              resp'.Data[k] = [resp.Data[k] EXCEPT
                                  !.Ret15mPct = resp'.Data[k].Ret15mPct,
                                  !.FilledBy0945 = resp'.Data[k].FilledBy0945]

\* C18: in the overlay an event whose date has no intraday bars (no entry
\* or an empty list, a per-date provider error leaving no entry) is
\* skipped: it counts in no 0-15m total, bin, side or weekday, its
\* Ret15mPct and FilledBy0945 stay 0 and no error is reported, the daily
\* results being unaffected; Summary15.Sessions is the number of events
\* with usable intraday bars and never exceeds Summary.Sessions.
C18_MissingMinutesSkipped ==
    /\ [][C18_OverlayStep]_vars
    /\ [](OverlayDone =>
            /\ status = 200
            /\ Len(daily) >= 2 => (resp.Success /\ resp.Error = "")
            /\ \A k \in 1..Len(resp.Data) :
                  k \notin UsableEvents =>
                      /\ resp.Data[k].Ret15mPct = Zero
                      /\ resp.Data[k].FilledBy0945 = 0
            /\ resp.Summary15.Sessions = Cardinality(UsableEvents)
            /\ resp.Summary15.Sessions <= resp.Summary.Sessions
            /\ \A b \in 1..Len(resp.Bins15) :
                  resp.Bins15[b].Count =
                      Cardinality({k \in UsableEvents :
                                      resp.Data[k].Bin = resp.Bins15[b].Label})
            /\ resp.UpSide15.Count =
                  Cardinality({k \in UsableEvents : resp.Data[k].Direction = 1})
            /\ resp.DownSide15.Count =
                  Cardinality({k \in UsableEvents : resp.Data[k].Direction # 1})
            /\ \A d \in DOMAIN resp.ByDOW15 :
                  resp.ByDOW15[d].Count =
                      Cardinality({k \in UsableEvents : resp.Data[k].DayOfWeek = d}))

\* two events: the date of one came back as an empty list, the other had
\* its opening minutes
C18_Witness ==
    /\ pc = "done"
    /\ resp.Error = ""
    /\ Len(resp.Data) = 2
    /\ \E k \in 1..2 :
          /\ resp.Data[k].Date \in DOMAIN minutesByDate
          /\ ~HasMinutes(resp.Data[k])
          /\ resp.Data[k].Ret15mPct = Zero
    /\ \E k \in 1..2 : resp.Data[k].Ret15mPct # Zero
    /\ resp.Summary15.Sessions = 1
    /\ resp.Summary.Sessions = 2

LabelsOf(bs) == [k \in 1..Len(bs) |-> bs[k].Label]

\* C19: in every response the overlay was applied to, Bins15 has the same
\* four labels in the same order as Bins, and ByDOW15 has exactly the keys
\* of ByDOW (Mon..Fri), whatever the events and the intraday bars are, with
\* no daily events, or with an event whose weekday or bin label is not one
\* of the predefined keys.
C19_SameKeys ==
    (OverlayDone /\ Len(daily) >= 2) =>
        /\ LabelsOf(resp.Bins15) = LabelsOf(resp.Bins)
        /\ DOMAIN resp.ByDOW15 = DOMAIN resp.ByDOW

YearsOutOfRange ==
    query.years.present /\ (query.years.v < 1 \/ query.years.v > 5)

MinGapOutOfRange ==
    query.minGap.present /\ ~(query.minGap.v.n > 0 /\ query.minGap.v.n < 20 * query.minGap.v.d)

\* nothing was fetched and nothing analysed
NothingRun ==
    /\ daily = << >>
    /\ i = 0 /\ points = << >>
    /\ resp = ZeroResponse
    /\ dates = << >> /\ requests = << >>

\* C20 as stated: a request with a missing ticker or an out-of-range
\* parameter (years outside 1..5, minGap not in 0 < minGap < 20) is
\* rejected before any fetch or analysis runs; the analysis never gets an
\* out-of-range value and never minGap <= 0.
C20_OutOfRangeRejected ==
    /\ (query.ticker = "" \/ YearsOutOfRange \/ MinGapOutOfRange) =>
          (pc \in {"request", "rejected"} /\ NothingRun)
    /\ pc \notin {"request", "rejected"} =>
          (years \in 1..5 /\ minGap.n > 0 /\ minGap.n < 20 * minGap.d)

\* C20: a request with a missing ticker is rejected before any fetch or
\* analysis runs; an out-of-range parameter (years outside 1..5, minGap not
\* in 0 < minGap < 20) is not rejected but replaced by its default (3 years,
\* 0.3), so the analysis never gets an out-of-range value and never
\* minGap <= 0.
C20_MissingTickerRejectedRangeDefaulted ==
    /\ query.ticker = "" =>
          /\ pc \in {"request", "rejected"}
          /\ NothingRun
          /\ pc = "rejected" => (status = 400 /\ ~ENABLED NextParams)
    /\ pc = "rejected" => query.ticker = ""
    /\ pc \notin {"request", "rejected"} =>
          /\ years \in 1..5 /\ minGap.n > 0 /\ minGap.n < 20 * minGap.d
          /\ years = IF query.years.present /\ ~YearsOutOfRange
                     THEN query.years.v ELSE 3
          /\ minGap = IF query.minGap.present /\ ~MinGapOutOfRange
                      THEN query.minGap.v ELSE Rat(3, 10)
          /\ pc \in {"loop", "fetch1m", "first15", "done"} =>
                (resp.Years = years /\ resp.MinGap = minGap)

\* years = 0 and minGap = 0 were asked for: the analysis ran with 3 and 0.3
C20_Witness ==
    /\ pc = "done"
    /\ query.years.present /\ query.years.v = 0
    /\ query.minGap.present /\ query.minGap.v = Zero
    /\ resp.Success
    /\ resp.Years = 3
    /\ resp.MinGap = Rat(3, 10)
    /\ Len(resp.Data) >= 1

\* |open - prevClose| / prevClose * 100 compared with minGap, in integers
GapEqualsMinGap(prevClose, open) ==
    AbsInt(open - prevClose) * 100 * minGap.d = minGap.n * prevClose

GapAboveMinGap(prevClose, open) ==
    AbsInt(open - prevClose) * 100 * minGap.d > minGap.n * prevClose

\* the iteration over a pair with positive prices appends an event
\* exactly when qualifies(prevClose, open)
C21_PairStep(qualifies(_, _)) ==
    (pc = "loop" /\ i < Len(daily) /\ daily[i].C > 0 /\ daily[i + 1].O > 0)
        => /\ i' = i + 1
           /\ IF qualifies(daily[i].C, daily[i + 1].O)
              THEN /\ Len(points') = Len(points) + 1
                   /\ points'[Len(points')].PrevClose = daily[i].C
                   /\ points'[Len(points')].Open = daily[i + 1].O
              ELSE points' = points

\* C21 as stated: minGap is an exclusive lower bound: a pair with positive
\* prices whose |gapPct| equals minGap produces no event, and one whose
\* |gapPct| is strictly greater produces one.
C21_ThresholdExclusive == [][C21_PairStep(GapAboveMinGap)]_vars

\* C21: minGap is an inclusive lower bound: a pair with positive prices
\* produces an event when its |gapPct| is equal to or greater than minGap,
\* and no event when it is smaller.
C21_ThresholdInclusive == [][C21_PairStep(AtLeastMinGap)]_vars

\* an event whose gap is exactly the threshold of 1%, and a smaller gap
\* (none at all) that was passed over
C21_Witness ==
    /\ pc = "done"
    /\ minGap = R(1)
    /\ Len(daily) = 3
    /\ Len(resp.Data) = 1
    /\ GapEqualsMinGap(resp.Data[1].PrevClose, resp.Data[1].Open)
    /\ resp.Data[1].GapPct = R(1)

\* the number a first-bin label shows before the dash, in tenths: the label
\* is read back by finding the one-decimal number that prints as it does
MaxTenths == 200

LabelLowerBound(lab) ==
    LET ts == {t \in 0..MaxTenths : Format1(Rat(t, 10)) \o "-0.5%" = lab}
    IN  IF ts = {} THEN R(-1) ELSE Rat(CHOOSE t \in ts : TRUE, 10)

\* max(minGap, 0.1)
EffectiveMin == IF RLt(minGap, Rat(1, 10)) THEN Rat(1, 10) ELSE minGap

\* C22: for every threshold minGap, the lower bound shown in the label of
\* the first bin equals effectiveMin = max(minGap, 0.1), the inclusive
\* minimum of that bin.
C22_LabelStatesLowerEdge ==
    pc = "binsDone" =>
        /\ bins[1].min = EffectiveMin
        /\ LabelLowerBound(bins[1].lab) = bins[1].min

\* the labels of the four bins, in the order of their definition
BinOrder == <<Format1(EffectiveMin) \o "-0.5%", "0.5-1.0%", "1.0-1.5%", ">1.5%">>

\* a bin entry that carries nothing but its label
EmptyEntry(b) ==
    /\ b.Count = 0
    /\ b.ContinuationRate = Zero /\ b.GapFillRate = Zero
    /\ b.FadeAvg = Zero /\ b.FollowAvg = Zero
    /\ b.Recommendation = ""

\* C24: the Bins list of a successful daily analysis has exactly four
\* entries, in bin definition order (first bin, 0.5-1.0%, 1.0-1.5%, >1.5%);
\* a bin with no events appears with count 0, rates 0, averages 0 and an
\* empty recommendation; the final sort.Slice never reorders the entries.
C24_FourBinsInOrder ==
    DailyAnalyzed =>
        /\ Len(resp.Bins) = 4
        /\ \A k \in 1..4 :
              /\ resp.Bins[k].Label = BinOrder[k]
              /\ resp.Bins[k] = OutBins[k]
              /\ EventsIn(resp.Data, BinOrder[k]) = {} => EmptyEntry(resp.Bins[k])
              /\ EventsIn(resp.Data, BinOrder[k]) # {} => resp.Bins[k].Recommendation # ""

\* two events in the bin 0.5-1.0% and none in the three other bins
C24_Witness ==
    /\ pc = "done"
    /\ resp.Success
    /\ Len(resp.Data) = 2
    /\ resp.Bins[2].Label = "0.5-1.0%" /\ resp.Bins[2].Count = 2
    /\ EmptyEntry(resp.Bins[1]) /\ EmptyEntry(resp.Bins[3]) /\ EmptyEntry(resp.Bins[4])

\* C25: sessions with a non-positive price never enter the event stream:
\* every emitted event has prev_close > 0, open > 0 and close > 0.
C25_EventPricesPositive ==
    DailyReturned =>
        \A k \in 1..Len(resp.Data) :
            /\ resp.Data[k].PrevClose > 0
            /\ resp.Data[k].Open > 0
            /\ resp.Data[k].Close > 0

\* the daily part of an event: everything but the two 0-15m fields
DailyPartOf(e) ==
    [Date |-> e.Date, GapPct |-> e.GapPct, DailyReturnPct |-> e.DailyReturnPct,
     Direction |-> e.Direction, SameDir |-> e.SameDir, Filled |-> e.Filled,
     Bin |-> e.Bin, Open |-> e.Open, Close |-> e.Close, PrevClose |-> e.PrevClose,
     DayOfWeek |-> e.DayOfWeek]

\* the daily layer of a response
DailyLayerOf(r) ==
    [Success |-> r.Success, Error |-> r.Error, Ticker |-> r.Ticker,
     Years |-> r.Years, MinGap |-> r.MinGap,
     Summary |-> r.Summary, Bins |-> r.Bins, ByDOW |-> r.ByDOW,
     UpSide |-> r.UpSide, DownSide |-> r.DownSide,
     CumDates |-> r.CumDates, CumFade |-> r.CumFade, CumFollow |-> r.CumFollow,
     Data |-> [k \in 1..Len(r.Data) |-> DailyPartOf(r.Data[k])]]

C26_OverlayStep == pc = "first15" => DailyLayerOf(resp') = DailyLayerOf(resp)

\* C26: analyzeFirst15 leaves the daily layer unchanged: Summary, Bins,
\* ByDOW, UpSide, DownSide, CumDates, CumFade, CumFollow, the number and
\* order of the events and each event's date, gap%, daily return%,
\* direction, continuation flag, fill flag, bin, prices and weekday are the
\* same after the overlay as before; only Ret15mPct, FilledBy0945 and the
\* 0-15m tables may change.
C26_OverlayKeepsDailyLayer == [][C26_OverlayStep]_vars

\* the overlay counted two sessions and wrote a 0-15m return and an early
\* fill into an event whose gap was not filled during the day
C26_Witness ==
    /\ OverlayDone
    /\ Len(resp.Data) = 2
    /\ resp.Summary15.Sessions = 2
    /\ resp.Summary.Sessions = 2
    /\ \E k \in 1..2 :
          /\ resp.Data[k].Ret15mPct # Zero
          /\ resp.Data[k].FilledBy0945 = 1
          /\ resp.Data[k].Filled = 0

\* the 1-minute bars the overlay was handed for an event's date
MinutesOf(e) == IF e.Date \in DOMAIN minutesByDate THEN minutesByDate[e.Date] ELSE << >>

\* the bars of an event's date stamped lo..hi minutes after New York midnight
InWindow(e, lo, hi) ==
    { k \in 1..Len(MinutesOf(e)) :
         MinuteOfDay(MinutesOf(e)[k]) >= lo /\ MinuteOfDay(MinutesOf(e)[k]) <= hi }

\* the bars whose interval lies in [09:30, 09:45)
First15Of(e) == InWindow(e, 9 * 60 + 30, 9 * 60 + 44)

\* the bars the overlay works on: those of the first 15 minutes or, when
\* there is none, those stamped 09:00..09:45
WindowOf(e) ==
    IF First15Of(e) # {} THEN First15Of(e) ELSE InWindow(e, 9 * 60, 9 * 60 + 45)

FirstIn(S) == CHOOSE k \in S : \A m \in S : k <= m
LastIn(S) == CHOOSE k \in S : \A m \in S : m <= k

Close0945(e) == MinutesOf(e)[LastIn(WindowOf(e))].C

\* the bars whose interval starts exactly at 09:30
Bars0930(e) == InWindow(e, 9 * 60 + 30, 9 * 60 + 30)

\* the open of the 09:30 bar, the daily open when there is no such bar
OpenOf0930BarOrDaily(e) ==
    IF Bars0930(e) # {} THEN MinutesOf(e)[FirstIn(Bars0930(e))].O ELSE e.Open

\* the same, a 09:30 bar with an open of 0 being taken as no bar
OpenOfNonZero0930BarOrDaily(e) ==
    IF Bars0930(e) # {} /\ MinutesOf(e)[FirstIn(Bars0930(e))].O # 0
    THEN MinutesOf(e)[FirstIn(Bars0930(e))].O ELSE e.Open

Ret15With(e, ref) == RMul(RDiv(RSub(R(Close0945(e)), R(ref)), R(ref)), R(100))

\* the events the overlay counts
Counted15 ==
    { k \in 1..Len(resp.Data) :
         WindowOf(resp.Data[k]) # {} /\ OpenOfNonZero0930BarOrDaily(resp.Data[k]) > 0 }

\* C27: in the overlay the opening reference price of a session is the open
\* of the intraday bar that starts exactly at 09:30 local; only when there
\* is no such bar is the daily bar's open used; a session whose reference
\* price is <= 0 is skipped.
C27_OpeningReference ==
    OverlayDone =>
        /\ \A k \in 1..Len(resp.Data) :
              LET e   == resp.Data[k]
                  ref == OpenOf0930BarOrDaily(e)
              IN  WindowOf(e) # {} =>
                     IF ref <= 0
                     THEN e.Ret15mPct = Zero /\ e.FilledBy0945 = 0
                     ELSE e.Ret15mPct = Thousandths(Ret15With(e, ref))
        /\ resp.Summary15.Sessions =
              Cardinality({ k \in 1..Len(resp.Data) :
                               /\ WindowOf(resp.Data[k]) # {}
                               /\ OpenOf0930BarOrDaily(resp.Data[k]) > 0 })

\* C28: every intraday bar that contributes to a session's 0-15m figures
\* lies in [09:30, 09:45) local, the 09:45 reference price is the close of
\* the last such bar, and a session with no bar in that window is skipped.
C28_OnlyFirst15Bars ==
    OverlayDone =>
        /\ \A k \in 1..Len(resp.Data) :
              LET e == resp.Data[k]
              IN  IF First15Of(e) = {}
                  THEN e.Ret15mPct = Zero /\ e.FilledBy0945 = 0
                  ELSE k \in Counted15 =>
                          /\ Close0945(e) = MinutesOf(e)[LastIn(First15Of(e))].C
                          /\ e.Ret15mPct =
                                Thousandths(Ret15With(e, OpenOfNonZero0930BarOrDaily(e)))
        /\ resp.Summary15.Sessions =
              Cardinality({ k \in Counted15 : First15Of(resp.Data[k]) # {} })

\* continuation to 09:45 of a counted event
Cont15Of(e) ==
    LET ret15 == Ret15With(e, OpenOfNonZero0930BarOrDaily(e))
    IN  IF IntSign(ret15.n) = e.Direction /\ e.Direction # 0 /\ ret15.n # 0 THEN 1 ELSE 0

\* gap fill by 09:45 of a counted event
Fill15Of(e) ==
    IF \/ (e.Direction = 1 /\ \E k \in WindowOf(e) : MinutesOf(e)[k].L <= e.PrevClose)
       \/ (e.Direction = -1 /\ \E k \in WindowOf(e) : MinutesOf(e)[k].H >= e.PrevClose)
    THEN 1 ELSE 0

RECURSIVE SumOver(_, _)
SumOver(S, f) ==
    IF S = {} THEN 0
    ELSE LET k == CHOOSE x \in S : TRUE IN f[k] + SumOver(S \ {k}, f)

\* n / d * 100 rounded to one decimal, 0 when d = 0
TenthsOfPct(n, d) == IF d = 0 THEN Zero ELSE Rat(RoundScaled(Rat(n * 100, d), 10), 10)

Mirror(x, y) == x.n = -y.n /\ x.d = y.d

MirrorAvgs(st) == Mirror(st.FadeAvg, st.FollowAvg)

\* every pair of averages of the response, and the cumulative series
C30_Mirrors ==
    /\ Len(resp.CumFade) = Len(resp.CumFollow)
    /\ \A k \in 1..Len(resp.CumFade) : Mirror(resp.CumFade[k], resp.CumFollow[k])
    /\ \A k \in 1..Len(resp.Data) :
          Mirror(FadeOfEvent(resp.Data[k]), FollowOfEvent(resp.Data[k]))
    /\ MirrorAvgs(resp.Summary) /\ MirrorAvgs(resp.Summary15)
    /\ MirrorAvgs(resp.UpSide) /\ MirrorAvgs(resp.DownSide)
    /\ MirrorAvgs(resp.UpSide15) /\ MirrorAvgs(resp.DownSide15)
    /\ \A k \in 1..Len(resp.Bins) : MirrorAvgs(resp.Bins[k])
    /\ \A k \in 1..Len(resp.Bins15) : MirrorAvgs(resp.Bins15[k])
    /\ \A d \in DOMAIN resp.ByDOW : MirrorAvgs(resp.ByDOW[d])
    /\ \A d \in DOMAIN resp.ByDOW15 : MirrorAvgs(resp.ByDOW15[d])
    /\ resp.Summary.ExpectedReturn.n >= 0
    /\ resp.Summary15.ExpectedReturn.n >= 0

C30_NeutralRule ==
    resp.Summary.BestStrategy = "NEUTRAL" <=> SumFollow(resp.Data, Len(resp.Data)) = Zero

\* C30 as stated: after any analysis each cumulative fade entry is the
\* negation of the cumulative follow entry at the same index, every FadeAvg
\* (Summary, bin, side, weekday, daily and 0-15m) is the negation of the
\* matching FollowAvg, Summary.ExpectedReturn is never negative, and
\* BestStrategy is NEUTRAL exactly when the sum of follow returns is 0.
C30_MirrorAlways == DailyReturned => (C30_Mirrors /\ C30_NeutralRule)

\* C30: in every response each cumulative fade entry is the negation of the
\* cumulative follow entry at the same index, every FadeAvg (Summary, bin,
\* side, weekday, daily and 0-15m) is the negation of the matching
\* FollowAvg and Summary.ExpectedReturn is never negative; after an
\* analysis of at least two bars BestStrategy is NEUTRAL exactly when the
\* sum of follow returns is 0.
C30_MirrorWhenAnalyzed ==
    /\ DailyReturned => C30_Mirrors
    /\ DailyAnalyzed => C30_NeutralRule

\* a gap up and a gap down with non-zero returns, one of them with a
\* non-zero return to 09:45: following was better over the day
C30_Witness ==
    /\ OverlayDone
    /\ Len(resp.Data) = 2
    /\ resp.Data[1].Direction = 1 /\ resp.Data[2].Direction = -1
    /\ resp.CumFollow[1] # Zero /\ resp.CumFollow[2] # Zero
    /\ resp.Summary.BestStrategy = "FOLLOW"
    /\ resp.Summary.FadeAvg.n < 0
    /\ resp.DownSide.FollowAvg # Zero
    /\ resp.Summary15.Sessions = 1
    /\ resp.Summary15.FollowAvg # Zero

\* what a step of the running request does to the other one: nothing,
\* unless the step is the exchange of the two
C23_OtherRequestStep ==
    parked' # parked => (parked' = Locals /\ Locals' = parked)

\* the key and the port are written by main alone
C23_ConfigStep ==
    (polygonAPIKey' # polygonAPIKey \/ listenPort' # listenPort) => pc = "main"

\* C23: concurrent requests do not interfere: the accumulators, the event
\* list and the result of a request are its own, the package-level API key
\* and port are written before the server starts and only read afterwards,
\* and under any interleaving of two requests each response equals the
\* response the same analysis gives when it runs alone on the same bars.
C23_RequestsDoNotInterfere ==
    /\ [][C23_OtherRequestStep]_vars
    /\ [][C23_ConfigStep]_vars
    /\ []((pc \notin {"main", "fatal"}) => (polygonAPIKey # "" /\ listenPort # 0))
    /\ []((rerun /\ pc = "done") => resp = firstResp)

\* both requests are in the middle of analyzeDaily at once, each with an
\* event list of its own
C23_Witness ==
    /\ pc = "loop" /\ parked.pc = "loop"
    /\ ticker = "QQQ" /\ parked.ticker = "SPY"
    /\ Len(daily) = 3 /\ Len(parked.daily) = 3
    /\ i = 2 /\ parked.i = 2
    /\ Len(points) = 1 /\ Len(parked.points) = 1
    /\ points # parked.points

====
